---- MODULE Spec2Model ----
(***************************************************************************)
(* State-machine model of the basiclm HTTP bridge: the dispatcher          *)
(* (LMAPIServer), the two chat handlers (RequestHandler), the error        *)
(* renderers and the upstream language-model capability they drive.        *)
(*                                                                         *)
(* The repository holds several revisions of RequestHandler.  The model    *)
(* takes the dispatcher from src/server/LMAPIServer.ts, the Protocol A     *)
(* (OpenAI) handler and its renderer from src/server/RequestHandler.ts and *)
(* utils/ErrorResponse.ts, and the Protocol B (Anthropic) handler and its  *)
(* renderer from the Anthropic-only revision of RequestHandler             *)
(* (unnamed/part_006).                                                     *)
(***************************************************************************)
EXTENDS Integers, Sequences, FiniteSets, TLC

VARIABLES state, pc, req, res, lm, acc

vars == <<state, pc, req, res, lm, acc>>

-----------------------------------------------------------------------------
(* Bounds *)

MaxRequests == 2      \* requests handled in one behaviour
MaxFragments == 2     \* fragments the upstream yields for one response
MaxReceived == 18     \* body data one request delivers, in units of MaxBodySize
MaxStarts == 2        \* listeners one server object binds in one behaviour
MaxTimers == 2        \* force-close timers pending at one time
MaxConnections == 1   \* connections open on one listener at one time
MaxWindows == 2       \* windows that share the persisted state

-----------------------------------------------------------------------------
(* constants.ts *)

OPENAI_CHAT_COMPLETIONS == <<"v1", "chat", "completions">>
ANTHROPIC_MESSAGES == <<"v1", "messages">>
MODELS == <<"v1", "models">>
HEALTH == <<"health">>

OK == 200
BAD_REQUEST == 400
FORBIDDEN == 403
NOT_FOUND == 404
METHOD_NOT_ALLOWED == 405
INTERNAL_SERVER_ERROR == 500
BAD_GATEWAY == 502
SERVICE_UNAVAILABLE == 503

INVALID_REQUEST == "invalid_request_error"
PERMISSION_ERROR == "permission_error"
NOT_FOUND_ERROR == "not_found_error"
API_ERROR == "api_error"

ERROR_CODES == {INVALID_REQUEST, PERMISSION_ERROR, NOT_FOUND_ERROR, API_ERROR}

-----------------------------------------------------------------------------
(* JSON values: a string and a number are different values on the wire. *)

JStr(s) == [str |-> s]
JNum(n) == [num |-> n]

NoBody == [none |-> TRUE]

-----------------------------------------------------------------------------
(* Inputs *)

\* A path is its sequence of segments: "/v1/messages/invalid" is
\* <<"v1", "messages", "invalid">>.
Paths ==
  { OPENAI_CHAT_COMPLETIONS, ANTHROPIC_MESSAGES, MODELS, HEALTH,
    <<"v1", "invalid">>, <<"v1", "messages", "invalid">> }

Methods == {"GET", "POST", "OPTIONS", "DELETE"}

\* Names are sequences of characters, so that case folding and substring
\* search are computed and not assumed.
Absent == <<"<absent>">>
NameGpt == <<"g", "p", "t">>
NameGptUpper == <<"G", "P", "T", "4">>
NameClaude == <<"c", "l">>
NameOther == <<"x">>
EmptyName == <<>>

\* The content of a message is a string, an array of parts, or anything else.
StringContent(text) == [kind |-> "string", text |-> text]

ArrayContent(parts) == [kind |-> "array", parts |-> parts]

OtherContent == [kind |-> "other"]

\* One user message of three characters.
ShortMessages == << [role |-> "user", content |-> StringContent("hey")] >>

\* Nine characters of text: a string, an array with a text part and a part
\* without text, and a content that is neither.
MixedMessages ==
  << [role |-> "user", content |-> StringContent("hello")],
     [role |-> "assistant",
      content |-> ArrayContent(<< [type |-> "text", text |-> "abcd"],
                                  [type |-> "image"] >>)],
     [role |-> "user", content |-> OtherContent] >>

\* An element of messages that is null: reading its role throws.
NullMessage == [isNull |-> TRUE]

BrokenMessages == << NullMessage >>

MessageLists == {ShortMessages, MixedMessages, BrokenMessages}

\* The top-level system field of a request that has none.
NoSystem == "<undefined>"

\* The limit of readRequestBody, 10 * 1024 * 1024 characters, and the sizes
\* of the chunks a request body arrives in, both in units of 1024 * 1024
\* characters.
MaxBodySize == 10

ChunkSizes == {5, 6}

\* The values a converter of tools or of tool calls can be handed: an array,
\* nothing, or an object that is not an array.
ArrayOf(items) == [defined |-> TRUE, isArray |-> TRUE, items |-> items]

Undefined == [defined |-> FALSE, isArray |-> FALSE, items |-> <<>>]

NotAnArray(items) == [defined |-> TRUE, isArray |-> FALSE, items |-> items]

\* The description of a tool that has none.
NoDescription == "<undefined>"

\* The tools of a request: one with a description, one without and one with
\* the empty description.  name, description and schema stand for the fields
\* of either protocol (function.name, function.description and
\* function.parameters; name, description and input_schema).
ToolDefinitions ==
  << [name |-> "get", description |-> "gets a thing", schema |-> "<schema of get>"],
     [name |-> "put", description |-> NoDescription, schema |-> "<schema of put>"],
     [name |-> "del", description |-> "", schema |-> "<schema of del>"] >>

ToolLists == {Undefined, ArrayOf(ToolDefinitions)}

\* What the body text of a request is, after JSON.parse.
\*   parse      "malformed": JSON.parse throws; "null": parses to null;
\*              "object": parses to an object
\*   model      a name, or Absent
\*   messages   "array", "absent" or "notarray"
\*   items      the messages of an array
\*   tools      the tools of the request
\*   system     the top-level system field, or NoSystem
\*   max_tokens 0 (absent or zero) or a positive number
Bodies ==
  { [parse |-> "malformed", model |-> Absent, messages |-> "absent",
     items |-> <<>>, tools |-> Undefined, system |-> NoSystem,
     max_tokens |-> 0, stream |-> FALSE],
    [parse |-> "null", model |-> Absent, messages |-> "absent",
     items |-> <<>>, tools |-> Undefined, system |-> NoSystem,
     max_tokens |-> 0, stream |-> FALSE] }
  \cup
  [ parse : {"object"},
    model : {Absent, EmptyName, NameGpt, NameGptUpper, NameOther},
    messages : {"absent", "notarray"},
    items : {<<>>},
    tools : {Undefined},
    system : {NoSystem},
    max_tokens : {0, 16},
    stream : BOOLEAN ]
  \cup
  [ parse : {"object"},
    model : {Absent, EmptyName, NameGpt, NameGptUpper, NameOther},
    messages : {"array"},
    items : MessageLists,
    tools : ToolLists,
    system : {NoSystem},
    max_tokens : {0, 16},
    stream : BOOLEAN ]

\* What vscode.lm.selectChatModels() can return.
ModelLists ==
  { <<>>,
    << [id |-> NameGpt, family |-> NameGpt] >>,
    << [id |-> NameClaude, family |-> EmptyName] >>,
    << [id |-> NameClaude, family |-> NameGpt],
       [id |-> NameGptUpper, family |-> NameClaude] >>,
    << [id |-> NameClaude, family |-> NameGpt],
       [id |-> NameOther, family |-> NameGpt] >> }

\* Codes of vscode.LanguageModelError; "Unknown" stands for any other code,
\* "NotLMError" for a failure that is not a LanguageModelError.
LMErrorCodes == {"NoPermissions", "Blocked", "NotFound", "ContextLengthExceeded", "Unknown"}
Failures == LMErrorCodes \cup {"NotLMError"}

\* The input of a tool call is an object: the sequence of its members, each
\* a pair of a key and a string value.
EmptyInput == <<>>
CityInput == << <<"city", "SF">> >>
CyclicInput == << <<"self", "<cycle>">> >>
ToolInputs == {EmptyInput, CityInput, CyclicInput}

\* Fragments of response.stream.  A tool call whose input cannot be
\* serialised (a cycle, a BigInt) makes JSON.stringify throw.
TextFragments == { [kind |-> "text", value |-> "ab"], [kind |-> "text", value |-> "cde"] }
ToolFragments ==
  { [kind |-> "tool", callId |-> "call_1", name |-> "get", input |-> EmptyInput, serialisable |-> TRUE],
    [kind |-> "tool", callId |-> "call_3", name |-> "weather", input |-> CityInput, serialisable |-> TRUE],
    [kind |-> "tool", callId |-> "call_2", name |-> "put", input |-> CyclicInput, serialisable |-> FALSE] }
Fragments == TextFragments \cup ToolFragments

\* Parts of a multi-part content, and of the content of a tool result.
TextPart(text) == [type |-> "text", text |-> text]

ImagePart == [type |-> "image"]

ThinkingPart == [type |-> "thinking", thinking |-> "hm"]

ToolUsePart == [type |-> "tool_use", id |-> "call_7", name |-> "get", input |-> CityInput]

ToolResultPart(content) ==
  [type |-> "tool_result", tool_use_id |-> "call_7", content |-> content]

WireMessage(role, content) == [role |-> role, content |-> content]

\* The message lists the conversions are applied to: every role, string and
\* multi-part contents, parts of every type a handler exists for and parts
\* of other types, tool results with a string, with parts and with neither.
WireMessageLists ==
  { <<>>,
    << WireMessage("user", StringContent("hey")) >>,
    << WireMessage("system", StringContent("rules")),
       WireMessage("user", StringContent("hey")),
       WireMessage("assistant", StringContent("ok")) >>,
    << WireMessage("user", ArrayContent(<< TextPart("ab"), ImagePart, TextPart("cd") >>)) >>,
    << WireMessage("assistant", ArrayContent(<< ImagePart >>)),
       WireMessage("user", ArrayContent(<< TextPart("ab") >>)) >>,
    << WireMessage("system", ArrayContent(<< TextPart("ab"), TextPart("cd") >>)),
       WireMessage("user", OtherContent) >>,
    << WireMessage("user", StringContent("go")),
       WireMessage("assistant", ArrayContent(<< TextPart("ok"), ToolUsePart >>)),
       WireMessage("user", ArrayContent(<< ToolResultPart(StringContent("12C")) >>)) >>,
    << WireMessage("user",
         ArrayContent(<< ToolResultPart(ArrayContent(<< TextPart("r1"), ImagePart >>)),
                         TextPart("x") >>)) >>,
    << WireMessage("assistant",
         ArrayContent(<< ThinkingPart, TextPart("z"), ToolUsePart >>)) >>,
    << WireMessage("user", ArrayContent(<< ToolResultPart(OtherContent), ThinkingPart >>)),
       WireMessage("assistant", StringContent("")) >> }

Systems == {NoSystem, "", "be brief"}

-----------------------------------------------------------------------------
(* http.ServerResponse *)

\* writeHeads, ends and errorBodies count the calls that reached the socket;
\* guarded counts the error-renderer calls that found the headers sent.
NewResponse ==
  [ headersSent |-> FALSE, statusCode |-> 0, writeHeads |-> 0,
    body |-> NoBody, frames |-> <<>>, ends |-> 0,
    errorBodies |-> 0, guarded |-> 0 ]

writeHead(r, statusCode) ==
  [r EXCEPT !.headersSent = TRUE, !.statusCode = statusCode,
            !.writeHeads = @ + 1]

end(r, body) == [r EXCEPT !.body = body, !.ends = @ + 1]

write(r, frame) == [r EXCEPT !.frames = Append(@, frame)]

-----------------------------------------------------------------------------
(* Error renderers *)

\* utils/ErrorResponse.ts, UnifiedErrorResponse.sendError (called without
\* param by every handler): the renderer of the Protocol A handler.
UnifiedErrorResponse_sendError(r, statusCode, message, type, requestId) ==
  IF r.headersSent
  THEN [r EXCEPT !.guarded = @ + 1]
  ELSE LET base == [message |-> message, type |-> type,
                    code |-> JStr(ToString(statusCode))]
           error == IF requestId # ""
                    THEN base @@ [requestId |-> requestId]
                    ELSE base
           sent == end(writeHead(r, statusCode), [error |-> error])
       IN  [sent EXCEPT !.errorBodies = @ + 1]

\* RequestHandler.sendError without its headersSent guard.
RequestHandler_sendError_NoGuard(r, statusCode, message, type, requestId) ==
  LET errorResponse ==
        [type |-> "error",
         error |-> [message |-> message, type |-> type,
                    code |-> JStr(ToString(statusCode))],
         request_id |-> requestId]
      sent == end(writeHead(r, statusCode), errorResponse)
  IN  [sent EXCEPT !.errorBodies = @ + 1]

\* RequestHandler.sendError of the Anthropic-only revision: the renderer of
\* the Protocol B handler.
RequestHandler_sendError(r, statusCode, message, type, requestId) ==
  IF r.headersSent
  THEN [r EXCEPT !.guarded = @ + 1]
  ELSE LET errorResponse ==
             [type |-> "error",
              error |-> [message |-> message, type |-> type,
                         code |-> JStr(ToString(statusCode))],
              request_id |-> requestId]
           sent == end(writeHead(r, statusCode), errorResponse)
       IN  [sent EXCEPT !.errorBodies = @ + 1]

\* LMAPIServer.sendError: the dispatcher's own renderer (404, 405, 500).
LMAPIServer_sendError(r, statusCode, message, requestId) ==
  IF r.headersSent
  THEN [r EXCEPT !.guarded = @ + 1]
  ELSE LET errorResponse ==
             [error |-> [message |-> message, type |-> "api_error",
                         code |-> JNum(statusCode), requestId |-> requestId]]
           sent == end(writeHead(r, statusCode), errorResponse)
       IN  [sent EXCEPT !.errorBodies = @ + 1]

\* The renderer a handler uses.
sendError(handler, r, statusCode, message, type, requestId) ==
  IF handler = "anthropic"
  THEN RequestHandler_sendError(r, statusCode, message, type, requestId)
  ELSE UnifiedErrorResponse_sendError(r, statusCode, message, type, requestId)

\* handleLanguageModelError with the "Blocked" case missing: a content-filter
\* block falls into the default branch.
handleLanguageModelError_NoBlocked(code) ==
  CASE code = "NoPermissions" ->
         [statusCode |-> FORBIDDEN, errorCode |-> PERMISSION_ERROR,
          message |-> "permission denied for language model access"]
    [] code = "NotFound" ->
         [statusCode |-> NOT_FOUND, errorCode |-> NOT_FOUND_ERROR,
          message |-> "language model not found"]
    [] code = "ContextLengthExceeded" ->
         [statusCode |-> BAD_REQUEST, errorCode |-> INVALID_REQUEST,
          message |-> "request exceeds context length limit"]
    [] OTHER ->
         [statusCode |-> BAD_GATEWAY, errorCode |-> API_ERROR,
          message |-> "language model error: " \o code]

\* RequestHandler.handleLanguageModelError: the classification table.
handleLanguageModelError(code) ==
  CASE code = "NoPermissions" ->
         [statusCode |-> FORBIDDEN, errorCode |-> PERMISSION_ERROR,
          message |-> "permission denied for language model access"]
    [] code = "Blocked" ->
         [statusCode |-> FORBIDDEN, errorCode |-> PERMISSION_ERROR,
          message |-> "request blocked by content filter"]
    [] code = "NotFound" ->
         [statusCode |-> NOT_FOUND, errorCode |-> NOT_FOUND_ERROR,
          message |-> "language model not found"]
    [] code = "ContextLengthExceeded" ->
         [statusCode |-> BAD_REQUEST, errorCode |-> INVALID_REQUEST,
          message |-> "request exceeds context length limit"]
    [] OTHER ->
         [statusCode |-> BAD_GATEWAY, errorCode |-> API_ERROR,
          message |-> "language model error: " \o code]

\* The catch around model.sendRequest and the response handlers.
renderUpstreamFailure(handler, r, failure, requestId) ==
  IF failure \in LMErrorCodes
  THEN LET c == handleLanguageModelError(failure)
       IN  sendError(handler, r, c.statusCode, c.message, c.errorCode, requestId)
  ELSE sendError(handler, r, BAD_GATEWAY,
                 IF handler = "anthropic"
                 THEN "language model request failed: " \o failure
                 ELSE "Language model request failed: " \o failure,
                 API_ERROR, requestId)

\* The outer catch of a chat handler.
renderProcessingFailure(handler, r, requestId) ==
  IF ~r.headersSent
  THEN sendError(handler, r, INTERNAL_SERVER_ERROR,
                 "request processing failed", API_ERROR, requestId)
  ELSE r

-----------------------------------------------------------------------------
(* Model selection *)

ToLowerChar(c) ==
  CASE c = "G" -> "g" [] c = "P" -> "p" [] c = "T" -> "t"
    [] c = "C" -> "c" [] c = "L" -> "l" [] c = "X" -> "x"
    [] OTHER -> c

toLowerCase(s) == [i \in 1..Len(s) |-> ToLowerChar(s[i])]

includes(s, sub) ==
  \E i \in 0..(Len(s) - Len(sub)) : SubSeq(s, i + 1, i + Len(sub)) = sub

NoModel == [none |-> TRUE]

\* Array.prototype.find returns the first element that passes its test:
\* the one of least index.
first(hits) == CHOOSE i \in hits : \A j \in hits : i <= j

\* selectModel with the two searches in the other order.
selectModel_FamilyFirst(models, requestedModel) ==
  LET exact == {i \in 1..Len(models) : models[i].id = requestedModel}
      family == {i \in 1..Len(models) :
                   /\ models[i].family # EmptyName
                   /\ includes(toLowerCase(requestedModel),
                               toLowerCase(models[i].family))}
  IN  IF family # {} THEN models[first(family)]
      ELSE IF exact # {} THEN models[first(exact)]
      ELSE NoModel

selectModel(models, requestedModel) ==
  LET exact == {i \in 1..Len(models) : models[i].id = requestedModel}
      family == {i \in 1..Len(models) :
                   /\ models[i].family # EmptyName
                   /\ includes(toLowerCase(requestedModel),
                               toLowerCase(models[i].family))}
  IN  IF exact # {} THEN models[first(exact)]
      ELSE IF family # {} THEN models[first(family)]
      ELSE NoModel

RECURSIVE Str(_)
\* The text of a name.
Str(name) == IF name = <<>> THEN "" ELSE Head(name) \o Str(Tail(name))

-----------------------------------------------------------------------------
(* Response assembly and stream frames *)

RECURSIVE joinLines(_)
\* Array.prototype.join("\n") of strings.
joinLines(strings) ==
  IF strings = <<>> THEN ""
  ELSE IF Len(strings) = 1 THEN Head(strings)
  ELSE Head(strings) \o "\n" \o joinLines(Tail(strings))

isTextPart(part) == part.type = "text"

\* The text convertOpenAIMessagesToVSCode takes from the content of a message.
flattenContent(content) ==
  CASE content.kind = "string" -> content.text
    [] content.kind = "array" ->
         LET texts == SelectSeq(content.parts, isTextPart)
         IN  joinLines([i \in 1..Len(texts) |-> texts[i].text])
    [] OTHER -> ""

\* The conversion that lets every part of a multi-part content through.
convertOpenAIMessagesToVSCode_NoFilter(messages) ==
  [i \in 1..Len(messages) |->
     LET parts == messages[i].content.parts
         content == IF messages[i].content.kind = "array"
                    THEN joinLines([j \in 1..Len(parts) |->
                                      IF "text" \in DOMAIN parts[j]
                                      THEN parts[j].text ELSE ""])
                    ELSE flattenContent(messages[i].content)
     IN  [role |-> "user",
          content |-> StringContent(IF messages[i].role = "system"
                                    THEN "[SYSTEM] " \o content ELSE content)]]

\* RequestHandler.convertOpenAIMessagesToVSCode.  The role it computes is not
\* used: every message is built with LanguageModelChatMessage.User.
convertOpenAIMessagesToVSCode(messages) ==
  [i \in 1..Len(messages) |->
     LET content == flattenContent(messages[i].content)
     IN  [role |-> "user",
          content |-> StringContent(IF messages[i].role = "system"
                                    THEN "[SYSTEM] " \o content ELSE content)]]

\* convertToolResultContent: the text parts of the content of a tool result.
convertToolResultContent(content) ==
  CASE content.kind = "string" -> << [kind |-> "text", value |-> content.text] >>
    [] content.kind = "array" ->
         [i \in 1..Len(content.parts) |->
            [kind |-> "text",
             value |-> IF "text" \in DOMAIN content.parts[i]
                       THEN content.parts[i].text ELSE ""]]
    [] OTHER -> << [kind |-> "text", value |-> ""] >>

\* The types partHandlers has a handler for.
partHandlers == {"text", "tool_result", "tool_use"}

hasPartHandler(part) == part.type \in partHandlers

\* The part a handler of partHandlers builds.
convertPart(part) ==
  CASE part.type = "text" -> [kind |-> "text", value |-> part.text]
    [] part.type = "tool_result" ->
         [kind |-> "toolResult", callId |-> part.tool_use_id,
          content |-> convertToolResultContent(part.content)]
    [] part.type = "tool_use" ->
         [kind |-> "toolCall", callId |-> part.id, name |-> part.name,
          input |-> part.input]

\* The content convertAnthropicMessagesToVSCode gives the message constructor;
\* it is undefined for a content that is neither a string nor an array.
convertContent(content) ==
  CASE content.kind = "string" -> StringContent(content.text)
    [] content.kind = "array" ->
         LET handled == SelectSeq(content.parts, hasPartHandler)
         IN  ArrayContent([i \in 1..Len(handled) |-> convertPart(handled[i])])
    [] OTHER -> OtherContent

\* The conversion that forgets the system field.
convertAnthropicMessagesToVSCode_NoSystem(messages, system) ==
  [i \in 1..Len(messages) |->
     [role |-> messages[i].role, content |-> convertContent(messages[i].content)]]

\* RequestHandler.convertAnthropicMessagesToVSCode.
convertAnthropicMessagesToVSCode(messages, system) ==
  (IF system \notin {NoSystem, ""}
   THEN << [role |-> "user", content |-> StringContent("[SYSTEM] " \o system)] >>
   ELSE <<>>)
  \o [i \in 1..Len(messages) |->
        [role |-> messages[i].role, content |-> convertContent(messages[i].content)]]

\* The roles messageConstructors has a constructor for.
messageConstructors == {"user", "assistant"}

\* The conversion does not throw: reading msg.role succeeds for every element
\* of messages and, for Protocol B, every role has a constructor to call.
canConvert(handler, messages) ==
  \A i \in 1..Len(messages) :
    /\ "isNull" \notin DOMAIN messages[i]
    /\ handler = "anthropic" => messages[i].role \in messageConstructors

\* The messages handed to model.sendRequest.
convertMessages(handler, request) ==
  IF handler = "openai" THEN convertOpenAIMessagesToVSCode(request.items)
  ELSE convertAnthropicMessagesToVSCode(request.items, request.system)

\* RequestHandler.convertOpenAIToolsToVSCode.
convertOpenAIToolsToVSCode(tools) ==
  IF ~tools.defined \/ ~tools.isArray THEN <<>>
  ELSE [i \in 1..Len(tools.items) |->
          [name |-> tools.items[i].name,
           description |-> tools.items[i].description,
           inputSchema |-> tools.items[i].schema]]

\* RequestHandler.convertAnthropicToolsToVSCode.
convertAnthropicToolsToVSCode(tools) ==
  IF ~tools.defined \/ ~tools.isArray THEN <<>>
  ELSE [i \in 1..Len(tools.items) |->
          [name |-> tools.items[i].name,
           description |->
             IF tools.items[i].description \notin {NoDescription, ""}
             THEN tools.items[i].description
             ELSE IF tools.items[i].name # "" THEN tools.items[i].name
             ELSE "no description available",
           inputSchema |-> tools.items[i].schema]]

\* The tools in the options of model.sendRequest.
convertTools(handler, tools) ==
  IF handler = "openai" THEN convertOpenAIToolsToVSCode(tools)
  ELSE convertAnthropicToolsToVSCode(tools)

RECURSIVE members(_)
\* The members of an object as JSON text, separated by commas.
members(input) ==
  IF input = <<>> THEN ""
  ELSE "\"" \o Head(input)[1] \o "\":\"" \o Head(input)[2] \o "\""
       \o (IF Len(input) > 1 THEN "," ELSE "") \o members(Tail(input))

\* JSON.stringify of a tool input; it throws on the unserialisable one, which
\* callers test with canStringify first.
JSON_stringify(input) ==
  IF input = CyclicInput THEN "<throws>" ELSE "{" \o members(input) \o "}"

canStringify(toolCalls) ==
  \A i \in 1..Len(toolCalls) : toolCalls[i].serialisable

RECURSIVE join(_)
\* Array.prototype.join("") of strings.
join(strings) ==
  IF strings = <<>> THEN "" ELSE Head(strings) \o join(Tail(strings))

\* The text estimateTokens takes from one message.
contentText(msg) ==
  CASE msg.content.kind = "string" -> msg.content.text
    [] msg.content.kind = "array" ->
         join([i \in 1..Len(msg.content.parts) |->
                 IF "text" \in DOMAIN msg.content.parts[i]
                 THEN msg.content.parts[i].text ELSE ""])
    [] OTHER -> ""

\* The estimate that rounds down.
estimateTokens_Floor(messages) ==
  Len(join([i \in 1..Len(messages) |-> contentText(messages[i])])) \div 4

\* RequestHandler.estimateTokens: Math.ceil(text.length / 4).
estimateTokens(messages) ==
  LET text == join([i \in 1..Len(messages) |-> contentText(messages[i])])
  IN  (Len(text) + 3) \div 4

\* The message the handlers build to estimate the output.
AssistantMessage(content) ==
  << [role |-> "assistant", content |-> StringContent(content)] >>

\* The conversion that serialises every input as the empty object.
convertVSCodeToolCallsToOpenAI_EmptyArguments(toolCalls) ==
  IF ~toolCalls.defined \/ ~toolCalls.isArray THEN <<>>
  ELSE [i \in 1..Len(toolCalls.items) |->
          [id |-> toolCalls.items[i].callId, type |-> "function",
           function |-> [name |-> toolCalls.items[i].name,
                         arguments |-> "{}"]]]

convertVSCodeToolCallsToOpenAI(toolCalls) ==
  IF ~toolCalls.defined \/ ~toolCalls.isArray THEN <<>>
  ELSE [i \in 1..Len(toolCalls.items) |->
          [id |-> toolCalls.items[i].callId, type |-> "function",
           function |-> [name |-> toolCalls.items[i].name,
                         arguments |-> JSON_stringify(toolCalls.items[i].input)]]]

\* The conversion that emits the calls last first.
convertVSCodeToolCallsToAnthropic_Reversed(toolCalls) ==
  LET calls == toolCalls.items
  IN  [i \in 1..Len(calls) |->
         [type |-> "tool_use", id |-> calls[Len(calls) + 1 - i].callId,
          name |-> calls[Len(calls) + 1 - i].name,
          input |-> calls[Len(calls) + 1 - i].input]]

convertVSCodeToolCallsToAnthropic(toolCalls) ==
  IF ~toolCalls.defined \/ ~toolCalls.isArray THEN <<>>
  ELSE [i \in 1..Len(toolCalls.items) |->
          [type |-> "tool_use", id |-> toolCalls.items[i].callId,
           name |-> toolCalls.items[i].name, input |-> toolCalls.items[i].input]]

\* The completion whose content is cut to one character.
OpenAICompletion_Truncated(request, content, toolCalls) ==
  LET calls == convertVSCodeToolCallsToOpenAI(ArrayOf(toolCalls))
      base == [role |-> "assistant",
               content |-> IF content = "" THEN "<null>" ELSE "a"]
      message == IF Len(calls) > 0 THEN base @@ [tool_calls |-> calls] ELSE base
      prompt == estimateTokens(request.items)
      completion == estimateTokens(AssistantMessage(content))
  IN  [object |-> "chat.completion", model |-> Str(request.model),
       message |-> message,
       finish_reason |-> IF Len(calls) > 0 THEN "tool_calls" ELSE "stop",
       prompt_tokens |-> prompt,
       completion_tokens |-> completion,
       total_tokens |-> prompt + completion]

\* Body of handleOpenAINonStreamingResponse.
OpenAICompletion(request, content, toolCalls) ==
  LET calls == convertVSCodeToolCallsToOpenAI(ArrayOf(toolCalls))
      base == [role |-> "assistant",
               content |-> IF content = "" THEN "<null>" ELSE content]
      message == IF Len(calls) > 0 THEN base @@ [tool_calls |-> calls] ELSE base
      prompt == estimateTokens(request.items)
      completion == estimateTokens(AssistantMessage(content))
  IN  [object |-> "chat.completion", model |-> Str(request.model),
       message |-> message,
       finish_reason |-> IF Len(calls) > 0 THEN "tool_calls" ELSE "stop",
       prompt_tokens |-> prompt,
       completion_tokens |-> completion,
       total_tokens |-> prompt + completion]

\* The message with a constant stop reason.
AnthropicMessage_EndTurn(request, content, toolCalls) ==
  LET calls == convertVSCodeToolCallsToAnthropic(ArrayOf(toolCalls))
      text == IF content # "" THEN << [type |-> "text", text |-> content] >> ELSE <<>>
  IN  [type |-> "message", role |-> "assistant", model |-> Str(request.model),
       content |-> text \o calls,
       stop_reason |-> "end_turn",
       input_tokens |-> estimateTokens(request.items),
       output_tokens |-> estimateTokens(AssistantMessage(content))]

\* Body of handleAnthropicResponse.
AnthropicMessage(request, content, toolCalls) ==
  LET calls == convertVSCodeToolCallsToAnthropic(ArrayOf(toolCalls))
      text == IF content # "" THEN << [type |-> "text", text |-> content] >> ELSE <<>>
  IN  [type |-> "message", role |-> "assistant", model |-> Str(request.model),
       content |-> text \o calls,
       stop_reason |-> IF Len(calls) > 0 THEN "tool_use" ELSE "end_turn",
       input_tokens |-> estimateTokens(request.items),
       output_tokens |-> estimateTokens(AssistantMessage(content))]

\* The text chunk with the role in every chunk.
OpenAITextChunk_AlwaysRole(chunkIndex, textChunk) ==
  [t |-> "chunk",
   delta |-> [role |-> "assistant", content |-> textChunk],
   finish_reason |-> "<null>"]

\* Frames of handleOpenAIStreamingResponse.
OpenAITextChunk(chunkIndex, textChunk) ==
  [t |-> "chunk",
   delta |-> IF chunkIndex = 0
             THEN [role |-> "assistant", content |-> textChunk]
             ELSE [content |-> textChunk],
   finish_reason |-> "<null>"]

OpenAIToolCallChunk(calls) ==
  [t |-> "chunk", delta |-> [tool_calls |-> calls], finish_reason |-> "<null>"]

\* The final chunk with a constant finish reason.
OpenAIFinalChunk_Stop(calls) ==
  [t |-> "chunk", delta |-> <<>>, finish_reason |-> "stop"]

OpenAIFinalChunk(calls) ==
  [t |-> "chunk", delta |-> <<>>,
   finish_reason |-> IF Len(calls) > 0 THEN "tool_calls" ELSE "stop"]

OpenAIDone == [t |-> "[DONE]"]

OpenAIErrorEvent ==
  [t |-> "error_chunk",
   error |-> [message |-> "stream processing error", type |-> API_ERROR]]

\* Events of handleAnthropicStreamingResponse.
MessageStart(model) == [t |-> "message_start", model |-> model]

TextBlockStart(index) ==
  [t |-> "content_block_start", index |-> index,
   content_block |-> [type |-> "text", text |-> ""]]

TextDelta(index, textChunk) ==
  [t |-> "content_block_delta", index |-> index,
   delta |-> [type |-> "text_delta", text |-> textChunk]]

BlockStop(index) == [t |-> "content_block_stop", index |-> index]

\* The start of a tool block that reuses the index of the text block.
ToolBlockStart_TextIndex(index, call) ==
  [t |-> "content_block_start", index |-> 0,
   content_block |-> [type |-> "tool_use", id |-> call.id, name |-> call.name,
                      input |-> EmptyInput]]

ToolBlockStart(index, call) ==
  [t |-> "content_block_start", index |-> index,
   content_block |-> [type |-> "tool_use", id |-> call.id, name |-> call.name,
                      input |-> EmptyInput]]

\* The delta of a tool block that carries an empty object.
ToolBlockDelta_Empty(index, call) ==
  [t |-> "content_block_delta", index |-> index,
   delta |-> [type |-> "input_json_delta", partial_json |-> "{}"]]

ToolBlockDelta(index, call) ==
  [t |-> "content_block_delta", index |-> index,
   delta |-> [type |-> "input_json_delta",
              partial_json |-> JSON_stringify(call.input)]]

\* The message_delta event with a constant stop reason.
MessageDelta_EndTurn(stopReason, content) ==
  [t |-> "message_delta", stop_reason |-> "end_turn",
   output_tokens |-> estimateTokens(AssistantMessage(content))]

MessageDelta(stopReason, content) ==
  [t |-> "message_delta", stop_reason |-> stopReason,
   output_tokens |-> estimateTokens(AssistantMessage(content))]

MessageStop == [t |-> "message_stop"]

AnthropicErrorEvent ==
  [t |-> "error", type |-> "error",
   error |-> [message |-> "stream processing error", type |-> API_ERROR]]

RECURSIVE ToolBlocks(_, _, _)
\* The loop over the tool calls at the end of the Protocol B stream: the
\* frames it writes, and whether JSON.stringify threw on the way.  toolCalls
\* carries the upstream parts, whose serialisable flag decides the throw.
ToolBlocks(toolCalls, blockIndex, frames) ==
  IF toolCalls = <<>>
  THEN [frames |-> frames, blockIndex |-> blockIndex, threw |-> FALSE]
  ELSE LET part == Head(toolCalls)
           call == [type |-> "tool_use", id |-> part.callId,
                    name |-> part.name, input |-> part.input]
           started == Append(frames, ToolBlockStart(blockIndex, call))
       IN  IF ~part.serialisable
           THEN [frames |-> started, blockIndex |-> blockIndex, threw |-> TRUE]
           ELSE ToolBlocks(Tail(toolCalls), blockIndex + 1,
                           started \o << ToolBlockDelta(blockIndex, call),
                                         BlockStop(blockIndex) >>)

-----------------------------------------------------------------------------
(* State *)

NoRequest ==
  [path |-> <<>>, method |-> "", handler |-> "none", requestId |-> "",
   bodyLength |-> 0, body |-> [parse |-> "unread"]]

\* What the upstream capability has been asked and has answered: discovered
\* is set once selectChatModels has returned, failure is what sendRequest or
\* the fragment sequence raised ("none" while nothing was raised), failedAt
\* is where, stream is the fragments response.stream has yielded so far and
\* exhausted is set once it has returned.
NewUpstream ==
  [discovered |-> FALSE, models |-> <<>>, model |-> NoModel,
   sendRequests |-> 0, messages |-> <<>>, tools |-> <<>>, failure |-> "none", failedAt |-> "none",
   stream |-> <<>>, exhausted |-> FALSE]

NewAccumulator ==
  [content |-> "", chunkIndex |-> 0, blockIndex |-> 0, toolCalls |-> <<>>,
   pulled |-> 0]

\* LMAPIServer constructor: not running, counters at zero.
Init ==
  /\ state = [isRunning |-> FALSE, bound |-> FALSE,
              requestCount |-> 0, errorCount |-> 0]
  /\ pc = "idle"
  /\ req = NoRequest
  /\ res = NewResponse
  /\ lm = NewUpstream
  /\ acc = NewAccumulator

generateRequestId(n) == "req_" \o ToString(n)

-----------------------------------------------------------------------------
(* LMAPIServer *)

\* start(): the listen callback, or the listener's error event.
Start ==
  /\ ~state.isRunning
  /\ \E listening \in BOOLEAN :
       state' = IF listening
                THEN [state EXCEPT !.isRunning = TRUE, !.bound = TRUE]
                ELSE [state EXCEPT !.isRunning = FALSE]
  /\ UNCHANGED <<pc, req, res, lm, acc>>

\* stop(): the close callback, once no request is in flight.
Stop ==
  /\ state.isRunning
  /\ pc \in {"idle", "done"}
  /\ state' = [state EXCEPT !.isRunning = FALSE, !.bound = FALSE]
  /\ UNCHANGED <<pc, req, res, lm, acc>>

\* restart(): stop() and then start().  stop returns at once when the server
\* is not running; neither touches the counters.
Restart ==
  /\ pc \in {"idle", "done"}
  /\ \E listening \in BOOLEAN :
       LET stopped == IF state.isRunning
                      THEN [state EXCEPT !.isRunning = FALSE, !.bound = FALSE]
                      ELSE state
       IN  state' = IF listening
                    THEN [stopped EXCEPT !.isRunning = TRUE, !.bound = TRUE]
                    ELSE [stopped EXCEPT !.isRunning = FALSE]
  /\ UNCHANGED <<pc, req, res, lm, acc>>

\* routeRequest: the handler a path and method lead to, "none" when the
\* dispatcher answers itself.
route(pathname, method) ==
  CASE pathname = OPENAI_CHAT_COMPLETIONS /\ method = "POST" -> "openai"
    [] pathname = ANTHROPIC_MESSAGES /\ method = "POST" -> "anthropic"
    [] pathname = MODELS /\ method = "GET" -> "models"
    [] pathname = HEALTH /\ method = "GET" -> "health"
    [] OTHER -> "none"

KnownRoutes == {OPENAI_CHAT_COMPLETIONS, ANTHROPIC_MESSAGES, MODELS, HEALTH}

\* routeRequest when no handler is called: 405 on a known path, 404 otherwise.
routeError(r, pathname, requestId) ==
  IF pathname \in KnownRoutes
  THEN LMAPIServer_sendError(r, METHOD_NOT_ALLOWED, "Method not allowed", requestId)
  ELSE LMAPIServer_sendError(r, NOT_FOUND, "Endpoint not found", requestId)

\* The dispatcher that also counts the 404 and 405 it renders as errors.
HandleRequest_CountsRouteErrors(pathname, method, urlOk) ==
  /\ state.isRunning
  /\ pc \in {"idle", "done"}
  /\ state.requestCount < MaxRequests
  /\ LET requestId == generateRequestId(state.requestCount + 1)
         handler == route(pathname, method)
         counted == [state EXCEPT !.requestCount = @ + 1]
     IN  /\ lm' = NewUpstream
         /\ acc' = NewAccumulator
         /\ IF ~urlOk
            THEN /\ state' = [counted EXCEPT !.errorCount = @ + 1]
                 /\ req' = [NoRequest EXCEPT !.requestId = requestId]
                 /\ res' = LMAPIServer_sendError(NewResponse, INTERNAL_SERVER_ERROR,
                                                 "Internal server error", requestId)
                 /\ pc' = "done"
            ELSE /\ state' = IF handler = "none" /\ method # "OPTIONS"
                           THEN [counted EXCEPT !.errorCount = @ + 1]
                           ELSE counted
                 /\ req' = [NoRequest EXCEPT !.path = pathname, !.method = method,
                                             !.handler = handler,
                                             !.requestId = requestId]
                 /\ IF method = "OPTIONS"
                    THEN /\ res' = end(writeHead(NewResponse, OK), NoBody)
                         /\ pc' = "done"
                    ELSE IF handler = "none"
                    THEN /\ res' = routeError(NewResponse, pathname, requestId)
                         /\ pc' = "done"
                    ELSE /\ res' = NewResponse
                         /\ pc' = IF handler \in {"openai", "anthropic"}
                                  THEN "readBody" ELSE "discover"

\* handleRequest up to the handler's first await.  urlOk = FALSE is a request
\* line that new URL() rejects.
HandleRequest(pathname, method, urlOk) ==
  /\ state.isRunning
  /\ pc \in {"idle", "done"}
  /\ state.requestCount < MaxRequests
  /\ LET requestId == generateRequestId(state.requestCount + 1)
         handler == route(pathname, method)
         counted == [state EXCEPT !.requestCount = @ + 1]
     IN  /\ lm' = NewUpstream
         /\ acc' = NewAccumulator
         /\ IF ~urlOk
            THEN /\ state' = [counted EXCEPT !.errorCount = @ + 1]
                 /\ req' = [NoRequest EXCEPT !.requestId = requestId]
                 /\ res' = LMAPIServer_sendError(NewResponse, INTERNAL_SERVER_ERROR,
                                                 "Internal server error", requestId)
                 /\ pc' = "done"
            ELSE /\ state' = counted
                 /\ req' = [NoRequest EXCEPT !.path = pathname, !.method = method,
                                             !.handler = handler,
                                             !.requestId = requestId]
                 /\ IF method = "OPTIONS"
                    THEN /\ res' = end(writeHead(NewResponse, OK), NoBody)
                         /\ pc' = "done"
                    ELSE IF handler = "none"
                    THEN /\ res' = routeError(NewResponse, pathname, requestId)
                         /\ pc' = "done"
                    ELSE /\ res' = NewResponse
                         /\ pc' = IF handler \in {"openai", "anthropic"}
                                  THEN "readBody" ELSE "discover"

-----------------------------------------------------------------------------
(* RequestHandler *)

\* The validation without its test of messages.
isValid_NoMessagesCheck(handler, body) ==
  /\ body.model \notin {Absent, EmptyName}
  /\ handler = "anthropic" => body.max_tokens # 0

\* The validation of a parsed body.
isValid(handler, body) ==
  /\ body.model \notin {Absent, EmptyName}
  /\ body.messages = "array"
  /\ handler = "anthropic" => body.max_tokens # 0

validationMessage(handler) ==
  IF handler = "anthropic"
  THEN "invalid request: model, messages, and max_tokens are required"
  ELSE "invalid request: model and messages are required"

\* The "data" listener of readRequestBody: the chunk is added to the body,
\* and the read is rejected when the body has grown past the limit, which
\* takes the handler to its catch.  The listener stays attached after the
\* rejection and goes on adding the chunks that still arrive.
OnData(chunk) ==
  /\ req.handler \in {"openai", "anthropic"}
  /\ pc = "readBody" \/ (pc = "done" /\ req.bodyLength > MaxBodySize)
  /\ req.bodyLength + chunk <= MaxReceived
  /\ req' = [req EXCEPT !.bodyLength = @ + chunk]
  /\ IF pc = "readBody" /\ req.bodyLength + chunk > MaxBodySize
     THEN /\ res' = renderProcessingFailure(req.handler, res, req.requestId)
          /\ pc' = "done"
     ELSE UNCHANGED <<res, pc>>
  /\ UNCHANGED <<state, lm, acc>>

\* The "end" or "error" event of readRequestBody, then JSON.parse and the
\* validation, up to the await of selectChatModels.  bodyRead = FALSE is a
\* socket error.  The text of a body of no characters is not JSON.  The
\* reader's body is of no use once the read has resolved.
ReadBody(body, bodyRead) ==
  /\ pc = "readBody"
  /\ (bodyRead /\ req.bodyLength = 0) => body.parse = "malformed"
  /\ req' = [req EXCEPT !.body = IF bodyRead THEN body ELSE [parse |-> "unread"],
                        !.bodyLength = 0]
  /\ IF ~bodyRead \/ body.parse \in {"malformed", "null"}
     THEN /\ res' = renderProcessingFailure(req.handler, res, req.requestId)
          /\ pc' = "done"
     ELSE IF ~isValid(req.handler, body)
     THEN /\ res' = sendError(req.handler, res, BAD_REQUEST,
                              validationMessage(req.handler), INVALID_REQUEST,
                              req.requestId)
          /\ pc' = "done"
     ELSE /\ res' = res
          /\ pc' = "discover"
  /\ UNCHANGED <<state, lm, acc>>

\* resolveModel without the test for an empty model list.
resolveModel_NoEmptyCheck(handler, r, models, requestedModel, requestId) ==
  IF selectModel(models, requestedModel) = NoModel
  THEN [res |-> IF handler = "anthropic"
                THEN sendError(handler, r, NOT_FOUND,
                               "model \"" \o Str(requestedModel) \o "\" not found",
                               NOT_FOUND_ERROR, requestId)
                ELSE sendError(handler, r, BAD_REQUEST,
                               "model \"" \o Str(requestedModel) \o "\" not available",
                               INVALID_REQUEST, requestId),
        pc |-> "done"]
  ELSE [res |-> r, pc |-> "sendRequest"]

\* A chat handler between the return of selectChatModels and the await of
\* model.sendRequest: the response and the next step.
resolveModel(handler, r, models, requestedModel, requestId) ==
  IF Len(models) = 0
  THEN [res |-> sendError(handler, r, SERVICE_UNAVAILABLE,
                          "no language models available", API_ERROR, requestId),
        pc |-> "done"]
  ELSE IF selectModel(models, requestedModel) = NoModel
  THEN [res |-> IF handler = "anthropic"
                THEN sendError(handler, r, NOT_FOUND,
                               "model \"" \o Str(requestedModel) \o "\" not found",
                               NOT_FOUND_ERROR, requestId)
                ELSE sendError(handler, r, BAD_REQUEST,
                               "model \"" \o Str(requestedModel) \o "\" not available",
                               INVALID_REQUEST, requestId),
        pc |-> "done"]
  ELSE [res |-> r, pc |-> "sendRequest"]

\* The return of selectChatModels and what follows up to the next await:
\* for a chat request the selection of the model, the conversion of the
\* messages and of the tools, and the call of model.sendRequest.  A
\* conversion that throws is caught by the outer catch of the handler.
Discover(models) ==
  /\ pc = "discover"
  /\ LET chat == req.handler \in {"openai", "anthropic"}
         selected == chat /\ Len(models) > 0
                     /\ selectModel(models, req.body.model) # NoModel
         converted == selected /\ canConvert(req.handler, req.body.items)
     IN  lm' = [lm EXCEPT !.discovered = TRUE, !.models = models,
                          !.model = IF chat THEN selectModel(models, req.body.model)
                                    ELSE NoModel,
                          !.messages = IF converted
                                       THEN convertMessages(req.handler, req.body)
                                       ELSE <<>>,
                          !.tools = IF converted
                                    THEN convertTools(req.handler, req.body.tools)
                                    ELSE <<>>]
  /\ CASE req.handler = "models" ->
            /\ res' = end(writeHead(res, OK),
                          [object |-> "list", data |-> [i \in 1..Len(models) |-> models[i].id]])
            /\ pc' = "done"
       [] req.handler = "health" ->
            /\ res' = end(writeHead(res, OK),
                          [status |-> "healthy", running |-> state.isRunning,
                           requests |-> state.requestCount, errors |-> state.errorCount,
                           available |-> Len(models)])
            /\ pc' = "done"
       [] OTHER ->
            LET next == resolveModel(req.handler, res, models, req.body.model,
                                     req.requestId)
            IN  IF next.pc = "sendRequest" /\ ~canConvert(req.handler, req.body.items)
                THEN /\ res' = renderProcessingFailure(req.handler, res, req.requestId)
                     /\ pc' = "done"
                ELSE /\ res' = next.res
                     /\ pc' = next.pc
  /\ UNCHANGED <<state, req, acc>>

\* A chat handler that renders the rejection of selectChatModels and goes on
\* to call the model all the same.
DiscoverFails_Continues ==
  /\ pc = "discover"
  /\ res' = IF req.handler = "models"
            THEN UnifiedErrorResponse_sendError(res, INTERNAL_SERVER_ERROR,
                   "failed to retrieve models", API_ERROR, req.requestId)
            ELSE IF req.handler = "health"
            THEN UnifiedErrorResponse_sendError(res, INTERNAL_SERVER_ERROR,
                   "health check failed", API_ERROR, req.requestId)
            ELSE renderProcessingFailure(req.handler, res, req.requestId)
  /\ pc' = IF req.handler \in {"openai", "anthropic"} THEN "sendRequest" ELSE "done"
  /\ UNCHANGED <<state, req, lm, acc>>

\* selectChatModels rejects: the catch of the handler.
DiscoverFails ==
  /\ pc = "discover"
  /\ res' = IF req.handler = "models"
            THEN UnifiedErrorResponse_sendError(res, INTERNAL_SERVER_ERROR,
                   "failed to retrieve models", API_ERROR, req.requestId)
            ELSE IF req.handler = "health"
            THEN UnifiedErrorResponse_sendError(res, INTERNAL_SERVER_ERROR,
                   "health check failed", API_ERROR, req.requestId)
            ELSE renderProcessingFailure(req.handler, res, req.requestId)
  /\ pc' = "done"
  /\ UNCHANGED <<state, req, lm, acc>>

\* A handler that calls model.sendRequest again after a call that failed.
SendRequest_Retries(outcome) ==
  /\ pc = "sendRequest"
  /\ lm' = [lm EXCEPT !.sendRequests = @ + 1,
                      !.failure = IF outcome = "ok" THEN "none" ELSE outcome,
                      !.failedAt = IF outcome = "ok" THEN "none" ELSE "sendRequest"]
  /\ IF outcome # "ok"
     THEN /\ res' = res
          /\ pc' = IF lm.sendRequests = 0 THEN "sendRequest" ELSE "done"
     ELSE /\ pc' = "pull"
          /\ res' = IF ~req.body.stream THEN res
                    ELSE IF req.handler = "openai" THEN writeHead(res, OK)
                    ELSE write(write(writeHead(res, OK),
                                     MessageStart(Str(req.body.model))),
                               TextBlockStart(acc.blockIndex))
  /\ UNCHANGED <<state, req, acc>>

\* The return of model.sendRequest with the status line written at once in
\* both modes.
SendRequest_WritesHead(outcome) ==
  /\ pc = "sendRequest"
  /\ lm' = [lm EXCEPT !.sendRequests = @ + 1,
                      !.failure = IF outcome = "ok" THEN "none" ELSE outcome,
                      !.failedAt = IF outcome = "ok" THEN "none" ELSE "sendRequest"]
  /\ IF outcome # "ok"
     THEN /\ res' = renderUpstreamFailure(req.handler, res, outcome, req.requestId)
          /\ pc' = "done"
     ELSE /\ pc' = "pull"
          /\ res' = IF ~req.body.stream \/ req.handler = "openai" THEN writeHead(res, OK)
                    ELSE write(write(writeHead(res, OK),
                                     MessageStart(Str(req.body.model))),
                               TextBlockStart(acc.blockIndex))
  /\ UNCHANGED <<state, req, acc>>

\* The return of model.sendRequest.  On success a streaming handler writes
\* the status line (and, for Protocol B, its two opening events) before it
\* pulls the first fragment.
SendRequest(outcome) ==
  /\ pc = "sendRequest"
  /\ lm' = [lm EXCEPT !.sendRequests = @ + 1,
                      !.failure = IF outcome = "ok" THEN "none" ELSE outcome,
                      !.failedAt = IF outcome = "ok" THEN "none" ELSE "sendRequest"]
  /\ IF outcome # "ok"
     THEN /\ res' = renderUpstreamFailure(req.handler, res, outcome, req.requestId)
          /\ pc' = "done"
     ELSE /\ pc' = "pull"
          /\ res' = IF ~req.body.stream THEN res
                    ELSE IF req.handler = "openai" THEN writeHead(res, OK)
                    ELSE write(write(writeHead(res, OK),
                                     MessageStart(Str(req.body.model))),
                               TextBlockStart(acc.blockIndex))
  /\ UNCHANGED <<state, req, acc>>

\* An iteration that keeps the text it pulled for later instead of writing it.
PullFragment_Buffered(part) ==
  /\ pc = "pull"
  /\ acc.pulled < MaxFragments
  /\ pc' = "pull"
  /\ acc' = IF part.kind = "text"
            THEN [acc EXCEPT !.content = @ \o part.value, !.pulled = @ + 1]
            ELSE [acc EXCEPT !.toolCalls = Append(@, part), !.pulled = @ + 1]
  /\ res' = res
  /\ lm' = [lm EXCEPT !.stream = Append(@, part)]
  /\ UNCHANGED <<state, req>>

\* One iteration of "for await (const part of response.stream)".
PullFragment(part) ==
  /\ pc = "pull"
  /\ acc.pulled < MaxFragments
  /\ pc' = "pull"
  /\ IF part.kind = "text"
     THEN /\ acc' = [acc EXCEPT !.content = @ \o part.value,
                                !.pulled = @ + 1,
                                !.chunkIndex = IF req.body.stream /\ req.handler = "openai"
                                               THEN @ + 1 ELSE @]
          /\ res' = IF ~req.body.stream THEN res
                    ELSE IF req.handler = "openai"
                    THEN write(res, OpenAITextChunk(acc.chunkIndex, part.value))
                    ELSE write(res, TextDelta(acc.blockIndex, part.value))
     ELSE /\ acc' = [acc EXCEPT !.toolCalls = Append(@, part), !.pulled = @ + 1]
          /\ res' = res
  /\ lm' = [lm EXCEPT !.stream = Append(@, part)]
  /\ UNCHANGED <<state, req>>

\* The end of handleOpenAIStreamingResponse.
endOpenAIStream(r, toolCalls) ==
  IF ~canStringify(toolCalls)
  THEN end(write(r, OpenAIErrorEvent), r.body)
  ELSE LET calls == convertVSCodeToolCallsToOpenAI(ArrayOf(toolCalls))
           withCalls == IF Len(calls) > 0
                        THEN write(r, OpenAIToolCallChunk(calls)) ELSE r
       IN  end(write(write(withCalls, OpenAIFinalChunk(calls)), OpenAIDone), r.body)

\* The end of the stream without its message_delta event.
endAnthropicStream_NoMessageDelta(r, a) ==
  LET closed == Append(r.frames, BlockStop(a.blockIndex))
      tools == ToolBlocks(a.toolCalls, a.blockIndex + 1, closed)
      last == IF tools.threw
              THEN Append(tools.frames, AnthropicErrorEvent)
              ELSE Append(tools.frames, MessageStop)
  IN  end([r EXCEPT !.frames = last], r.body)

\* The end of handleAnthropicStreamingResponse.
endAnthropicStream(r, a) ==
  LET closed == Append(r.frames, BlockStop(a.blockIndex))
      tools == ToolBlocks(a.toolCalls, a.blockIndex + 1, closed)
      last == IF tools.threw
              THEN Append(tools.frames, AnthropicErrorEvent)
              ELSE tools.frames \o
                   << MessageDelta(IF Len(a.toolCalls) > 0 THEN "tool_use" ELSE "end_turn",
                                   a.content),
                      MessageStop >>
  IN  end([r EXCEPT !.frames = last], r.body)

\* The end of the non-streaming handlers with the tool calls left out of a
\* response that has text.
endNonStreaming_TextHidesCalls(handler, r, request, a, requestId) ==
  LET calls == IF a.content # "" THEN <<>> ELSE a.toolCalls
  IN  IF handler = "openai"
      THEN IF ~canStringify(a.toolCalls)
           THEN renderUpstreamFailure(handler, r, "TypeError", requestId)
           ELSE end(writeHead(r, OK), OpenAICompletion(request, a.content, calls))
      ELSE IF ~canStringify(a.toolCalls)
           THEN renderUpstreamFailure(handler, writeHead(r, OK), "TypeError", requestId)
           ELSE end(writeHead(r, OK), AnthropicMessage(request, a.content, calls))

\* The end of handleOpenAINonStreamingResponse and of handleAnthropicResponse.
\* Protocol A serialises the tool inputs before the status line; Protocol B
\* serialises the whole message after it.
endNonStreaming(handler, r, request, a, requestId) ==
  IF handler = "openai"
  THEN IF ~canStringify(a.toolCalls)
       THEN renderUpstreamFailure(handler, r, "TypeError", requestId)
       ELSE end(writeHead(r, OK), OpenAICompletion(request, a.content, a.toolCalls))
  ELSE IF ~canStringify(a.toolCalls)
       THEN renderUpstreamFailure(handler, writeHead(r, OK), "TypeError", requestId)
       ELSE end(writeHead(r, OK), AnthropicMessage(request, a.content, a.toolCalls))

\* response.stream is exhausted.
EndOfStream ==
  /\ pc = "pull"
  /\ pc' = "done"
  /\ res' = IF ~req.body.stream
            THEN endNonStreaming(req.handler, res, req.body, acc, req.requestId)
            ELSE IF req.handler = "openai"
            THEN endOpenAIStream(res, acc.toolCalls)
            ELSE endAnthropicStream(res, acc)
  /\ acc' = IF req.body.stream /\ req.handler = "anthropic"
            THEN [acc EXCEPT !.blockIndex =
                    ToolBlocks(acc.toolCalls, acc.blockIndex + 1, <<>>).blockIndex]
            ELSE acc
  /\ lm' = [lm EXCEPT !.exhausted = TRUE]
  /\ UNCHANGED <<state, req>>

\* A catch block that goes on to close the stream as a finished one.
StreamRaises_ThenCloses(failure) ==
  /\ pc = "pull"
  /\ pc' = "done"
  /\ res' = IF ~req.body.stream
            THEN renderUpstreamFailure(req.handler, res, failure, req.requestId)
            ELSE IF req.handler = "openai"
            THEN end(write(write(res, OpenAIErrorEvent), OpenAIDone), res.body)
            ELSE end(write(write(res, AnthropicErrorEvent), MessageStop), res.body)
  /\ lm' = [lm EXCEPT !.failure = failure, !.failedAt = "stream"]
  /\ UNCHANGED <<state, req, acc>>

\* response.stream raises while it is iterated.
StreamRaises(failure) ==
  /\ pc = "pull"
  /\ pc' = "done"
  /\ res' = IF ~req.body.stream
            THEN renderUpstreamFailure(req.handler, res, failure, req.requestId)
            ELSE IF req.handler = "openai"
            THEN end(write(res, OpenAIErrorEvent), res.body)
            ELSE end(write(res, AnthropicErrorEvent), res.body)
  /\ lm' = [lm EXCEPT !.failure = failure, !.failedAt = "stream"]
  /\ UNCHANGED <<state, req, acc>>

-----------------------------------------------------------------------------

Next ==
  \/ Start
  \/ Stop
  \/ Restart
  \/ \E pathname \in Paths, method \in Methods, urlOk \in BOOLEAN :
       HandleRequest(pathname, method, urlOk)
  \/ \E chunk \in ChunkSizes : OnData(chunk)
  \/ \E body \in Bodies, bodyRead \in BOOLEAN : ReadBody(body, bodyRead)
  \/ \E models \in ModelLists : Discover(models)
  \/ DiscoverFails
  \/ \E outcome \in {"ok"} \cup Failures : SendRequest(outcome)
  \/ \E part \in Fragments : PullFragment(part)
  \/ EndOfStream
  \/ \E failure \in Failures : StreamRaises(failure)

Spec == Init /\ [][Next]_vars

-----------------------------------------------------------------------------
(* The conversion of messages on its own *)

\* A chat request whose model has been selected, for each message list and
\* system field.
InitConvert ==
  /\ state = [isRunning |-> TRUE, bound |-> TRUE,
              requestCount |-> 1, errorCount |-> 0]
  /\ pc = "convert"
  /\ \E handler \in {"openai", "anthropic"}, items \in WireMessageLists,
        system \in Systems :
       req = [NoRequest EXCEPT
                !.handler = handler, !.method = "POST",
                !.requestId = generateRequestId(1),
                !.body = [parse |-> "object", model |-> NameGpt,
                          messages |-> "array", items |-> items,
                          tools |-> Undefined, system |-> system,
                          max_tokens |-> 16, stream |-> FALSE]]
  /\ res = NewResponse
  /\ lm = [NewUpstream EXCEPT !.discovered = TRUE]
  /\ acc = NewAccumulator

\* The call of convertOpenAIMessagesToVSCode or convertAnthropicMessagesToVSCode.
ConvertMessages ==
  /\ pc = "convert"
  /\ IF canConvert(req.handler, req.body.items)
     THEN /\ lm' = [lm EXCEPT !.messages = convertMessages(req.handler, req.body)]
          /\ pc' = "converted"
          /\ res' = res
     ELSE /\ res' = renderProcessingFailure(req.handler, res, req.requestId)
          /\ pc' = "done"
          /\ lm' = lm
  /\ UNCHANGED <<state, req, acc>>

NextConvert == ConvertMessages

SpecConvert == InitConvert /\ [][NextConvert]_vars

-----------------------------------------------------------------------------
(* Two requests in flight *)

\* The locals of a call of handleRequest and of the handler it awaits: what
\* the event loop keeps for a request while another one runs.
Context(position, request, response, upstream, accumulator) ==
  [pc |-> position, req |-> request, res |-> response, lm |-> upstream,
   acc |-> accumulator]

\* The chat requests that are in flight together: a valid body, streaming
\* or not, for either protocol.
ConcurrentBodies ==
  [ parse : {"object"}, model : {NameGpt}, messages : {"array"},
    items : {ShortMessages}, tools : {Undefined}, system : {NoSystem},
    max_tokens : {16}, stream : BOOLEAN ]

ConcurrentFragments ==
  { [kind |-> "text", value |-> "ab"], [kind |-> "text", value |-> "cde"],
    [kind |-> "tool", callId |-> "call_1", name |-> "get", input |-> EmptyInput,
     serialisable |-> TRUE] }

\* A running server and no request: state.suspended is the request that
\* waits at an await while the other one runs.
InitConcurrent ==
  /\ state = [isRunning |-> TRUE, bound |-> TRUE, requestCount |-> 0,
              errorCount |-> 0,
              suspended |-> Context("idle", NoRequest, NewResponse, NewUpstream,
                                    NewAccumulator)]
  /\ pc = "idle"
  /\ req = NoRequest
  /\ res = NewResponse
  /\ lm = NewUpstream
  /\ acc = NewAccumulator

\* A handler that keeps its accumulator in a field of the RequestHandler all
\* requests go through.
Switch_SharedAccumulator ==
  /\ state' = [state EXCEPT !.suspended = Context(pc, req, res, lm, acc)]
  /\ pc' = state.suspended.pc
  /\ req' = state.suspended.req
  /\ res' = state.suspended.res
  /\ lm' = state.suspended.lm
  /\ acc' = acc

\* The event loop leaves the request that has reached an await and resumes
\* the other one, or takes a new connection.
Switch ==
  /\ state' = [state EXCEPT !.suspended = Context(pc, req, res, lm, acc)]
  /\ pc' = state.suspended.pc
  /\ req' = state.suspended.req
  /\ res' = state.suspended.res
  /\ lm' = state.suspended.lm
  /\ acc' = state.suspended.acc

NextConcurrent ==
  \/ Switch
  \/ \E pathname \in {OPENAI_CHAT_COMPLETIONS, ANTHROPIC_MESSAGES} :
       HandleRequest(pathname, "POST", TRUE)
  \/ OnData(5)
  \/ \E body \in ConcurrentBodies : ReadBody(body, TRUE)
  \/ Discover(<< [id |-> NameGpt, family |-> NameGpt] >>)
  \/ \E outcome \in {"ok", "NotLMError"} : SendRequest(outcome)
  \/ \E part \in ConcurrentFragments : PullFragment(part)
  \/ EndOfStream
  \/ StreamRaises("NotLMError")

SpecConcurrent == InitConcurrent /\ [][NextConcurrent]_vars

-----------------------------------------------------------------------------
(* The life cycle of the server on its own *)

\* DEFAULT_CONFIG
DefaultPort == 8099

DefaultHost == "127.0.0.1"

\* The optional fields of ServerState when they are undefined.
NoPort == 0

NoHost == "<undefined>"

NoTime == 0

\* this.server: status is "none" while it is undefined, "created" between
\* listen() and its callback or error event, then "listening", "closing"
\* after close(), "closed" after the close callback, "failed" after a listen
\* that did not bind.  connections are the sockets open on it.
NoServer == [status |-> "none", connections |-> 0]

\* The promise of the last start(), stop() or restart(): the command, whether
\* the server was running when it was called, and how it was settled.
NoOutcome == [command |-> "none", running |-> FALSE, outcome |-> "none"]

AlreadyRunning == "Server is already running"

PortInUse == "Port 8099 is already in use"

\* The LMAPIServer after construction: this.state, this.server, the timers
\* of stop() that have not fired, the listeners bound so far, and whether a
\* listener that this.server no longer refers to still holds the port.
InitLifecycle ==
  /\ state = [isRunning |-> FALSE, port |-> NoPort, host |-> NoHost,
              startTime |-> NoTime, requestCount |-> 0, errorCount |-> 0,
              server |-> NoServer, timers |-> 0, starts |-> 0, orphan |-> FALSE]
  /\ pc = "idle"
  /\ res = NoOutcome
  /\ req = NoRequest
  /\ lm = NewUpstream
  /\ acc = NewAccumulator

\* start() up to the return of its promise, for a server that is not
\* running: a new http.Server takes the place of this.server and listen()
\* is called on it.
createServer(s) ==
  [s EXCEPT !.orphan = @ \/ s.server.status = "listening",
            !.server = [status |-> "created", connections |-> 0]]

\* stop() up to the return of its promise, for a running server: close() is
\* called and the timer is set.
closeServer(s) ==
  [s EXCEPT !.server.status = "closing", !.timers = @ + 1]

\* stop() returns at once.
notRunning(s) == ~s.isRunning \/ s.server.status = "none"

\* The start command: start() throws when the state says running.
StartCommand ==
  /\ pc = "idle"
  /\ state.starts < MaxStarts
  /\ IF state.isRunning
     THEN /\ res' = [command |-> "start", running |-> TRUE, outcome |-> AlreadyRunning]
          /\ UNCHANGED <<state, pc>>
     ELSE /\ state' = createServer(state)
          /\ pc' = "start"
          /\ res' = [command |-> "start", running |-> FALSE, outcome |-> "pending"]
  /\ UNCHANGED <<req, lm, acc>>

\* The callback of listen(): the listener is bound.
Listening ==
  /\ pc \in {"start", "restartStart"}
  /\ state.server.status = "created"
  /\ ~state.orphan
  /\ state' = [state EXCEPT !.isRunning = TRUE, !.port = DefaultPort,
                            !.host = DefaultHost, !.startTime = state.starts + 1,
                            !.starts = @ + 1, !.server.status = "listening"]
  /\ res' = [res EXCEPT !.outcome = "resolved"]
  /\ pc' = "idle"
  /\ UNCHANGED <<req, lm, acc>>

\* The "error" event of a listen() that does not bind.
ListenFails(code) ==
  /\ pc \in {"start", "restartStart"}
  /\ state.server.status = "created"
  /\ state' = [state EXCEPT !.isRunning = FALSE, !.server.status = "failed"]
  /\ res' = [res EXCEPT !.outcome = IF code = "EADDRINUSE" THEN PortInUse ELSE code]
  /\ pc' = "idle"
  /\ UNCHANGED <<req, lm, acc>>

\* The "error" event of a listener that is bound (an accept that fails): the
\* promise of start() is settled already, so only the flag changes.
ServerError ==
  /\ state.server.status = "listening"
  /\ state.isRunning
  /\ state' = [state EXCEPT !.isRunning = FALSE]
  /\ UNCHANGED <<pc, req, res, lm, acc>>

\* A connection arrives with a request: handleRequest counts it.
Connect ==
  /\ state.server.status = "listening"
  /\ state.server.connections < MaxConnections
  /\ state.requestCount < MaxRequests
  /\ state' = [state EXCEPT !.server.connections = @ + 1, !.requestCount = @ + 1]
  /\ UNCHANGED <<pc, req, res, lm, acc>>

\* A connection is closed by its peer.
Disconnect ==
  /\ state.server.connections > 0
  /\ state' = [state EXCEPT !.server.connections = @ - 1]
  /\ UNCHANGED <<pc, req, res, lm, acc>>

\* The stop command.
StopCommand ==
  /\ pc = "idle"
  /\ state.timers < MaxTimers
  /\ IF notRunning(state)
     THEN /\ res' = [command |-> "stop", running |-> FALSE, outcome |-> "resolved"]
          /\ UNCHANGED <<state, pc>>
     ELSE /\ state' = closeServer(state)
          /\ pc' = "stop"
          /\ res' = [command |-> "stop", running |-> TRUE, outcome |-> "pending"]
  /\ UNCHANGED <<req, lm, acc>>

\* The restart command: stop(), and start() at once when stop() had nothing
\* to do.
RestartCommand ==
  /\ pc = "idle"
  /\ state.timers < MaxTimers
  /\ state.starts < MaxStarts
  /\ IF notRunning(state)
     THEN /\ state' = createServer(state)
          /\ pc' = "restartStart"
     ELSE /\ state' = closeServer(state)
          /\ pc' = "restartStop"
  /\ res' = [command |-> "restart", running |-> state.isRunning, outcome |-> "pending"]
  /\ UNCHANGED <<req, lm, acc>>

\* The callback of close(), once no connection is left: the state is
\* cleared and the promise of stop() resolved; a restart goes on to start().
CloseCallback ==
  /\ state.server.status = "closing"
  /\ state.server.connections = 0
  /\ LET cleared == [state EXCEPT !.isRunning = FALSE, !.port = NoPort,
                                  !.host = NoHost, !.startTime = NoTime,
                                  !.server.status = "closed"]
     IN  CASE pc = "stop" ->
                /\ state' = cleared
                /\ res' = [res EXCEPT !.outcome = "resolved"]
                /\ pc' = "idle"
           [] pc = "restartStop" ->
                /\ state' = createServer(cleared)
                /\ res' = res
                /\ pc' = "restartStart"
           [] OTHER ->
                /\ state' = cleared
                /\ UNCHANGED <<res, pc>>
  /\ UNCHANGED <<req, lm, acc>>

\* The timer of stop(), five seconds after the call: the connections of
\* this.server are closed and the promise is resolved, whether the close
\* callback has run or not.  The callback of a close() that found no
\* connection open has run long before; the callback of one that waited for
\* a connection comes in a later turn of the event loop, after restart() has
\* gone on to start().
TimerFires ==
  /\ state.timers > 0
  /\ state.server.status = "closing" => state.server.connections > 0
  /\ LET fired == [state EXCEPT !.timers = @ - 1, !.server.connections = 0]
     IN  CASE pc = "stop" ->
                /\ state' = fired
                /\ res' = [res EXCEPT !.outcome = "resolved"]
                /\ pc' = "idle"
           [] pc = "restartStop" ->
                /\ state' = fired
                /\ res' = [res EXCEPT !.outcome = AlreadyRunning]
                /\ pc' = "idle"
           [] OTHER ->
                /\ state' = fired
                /\ UNCHANGED <<res, pc>>
  /\ UNCHANGED <<req, lm, acc>>

NextLifecycle ==
  \/ StartCommand
  \/ Listening
  \/ \E code \in {"EADDRINUSE", "EACCES"} : ListenFails(code)
  \/ ServerError
  \/ Connect
  \/ Disconnect
  \/ StopCommand
  \/ RestartCommand
  \/ CloseCallback
  \/ TimerFires

SpecLifecycle == InitLifecycle /\ [][NextLifecycle]_vars

-----------------------------------------------------------------------------
(* Several windows, one persisted state *)

Windows == 1..MaxWindows

\* No window: nobody listens on the port.
NoWindow == 0

\* A window whose extension is not activated, and its LMAPIServer once it is.
ClosedWindow == [active |-> FALSE, isRunning |-> FALSE]

\* The value of the key basiclm.serverState.<host>:<port> before any update.
NoGlobalServerState == [isRunning |-> FALSE, port |-> NoPort, host |-> NoHost]

RunningElsewhere == "BasicLM is already running in another window"

\* windows are the extension instances, globalState the persisted value all
\* of them read and write, listener the window whose server holds the port.
InitWindows ==
  /\ state = [windows |-> [w \in Windows |-> ClosedWindow],
              globalState |-> NoGlobalServerState,
              listener |-> NoWindow]
  /\ pc = [w \in Windows |-> "idle"]
  /\ res = [w \in Windows |-> "none"]
  /\ req = NoRequest
  /\ lm = NewUpstream
  /\ acc = NewAccumulator

getGlobalServerState == state.globalState

\* updateGlobalServerState(isRunning) on top of the state s.
updateGlobalServerState(s, isRunning) ==
  [s EXCEPT !.globalState =
     [isRunning |-> isRunning,
      port |-> IF isRunning THEN DefaultPort ELSE NoPort,
      host |-> IF isRunning THEN DefaultHost ELSE NoHost]]

\* activate(): a new LMAPIServer that is not running.
Activate(w) ==
  /\ ~state.windows[w].active
  /\ state' = [state EXCEPT !.windows[w] = [active |-> TRUE, isRunning |-> FALSE]]
  /\ pc' = [pc EXCEPT ![w] = "idle"]
  /\ res' = [res EXCEPT ![w] = "none"]
  /\ UNCHANGED <<req, lm, acc>>

\* deactivate(): server.dispose() stops the server; the persisted state is
\* not written.
Deactivate(w) ==
  /\ state.windows[w].active
  /\ pc[w] = "idle"
  /\ state' = [state EXCEPT !.windows[w] = ClosedWindow,
                            !.listener = IF @ = w THEN NoWindow ELSE @]
  /\ res' = [res EXCEPT ![w] = "none"]
  /\ UNCHANGED <<pc, req, lm, acc>>

\* The command basiclm.start up to the await of server.start().
WindowStart(w) ==
  /\ state.windows[w].active
  /\ pc[w] = "idle"
  /\ IF getGlobalServerState.isRunning
     THEN /\ res' = [res EXCEPT ![w] = RunningElsewhere]
          /\ UNCHANGED <<state, pc>>
     ELSE IF state.windows[w].isRunning
     THEN /\ res' = [res EXCEPT ![w] = "BasicLM is already running"]
          /\ UNCHANGED <<state, pc>>
     ELSE /\ pc' = [pc EXCEPT ![w] = "start"]
          /\ res' = [res EXCEPT ![w] = "none"]
          /\ state' = state
  /\ UNCHANGED <<req, lm, acc>>

\* server.start() returns: the port is bound when nobody holds it, and the
\* persisted state is written; otherwise the command reports the failure.
WindowStarted(w) ==
  /\ pc[w] = "start"
  /\ IF state.listener = NoWindow
     THEN /\ state' = updateGlobalServerState(
                        [state EXCEPT !.windows[w].isRunning = TRUE,
                                      !.listener = w], TRUE)
          /\ res' = [res EXCEPT ![w] = "BasicLM started successfully"]
     ELSE /\ state' = state
          /\ res' = [res EXCEPT ![w] = "BasicLM failed to start: " \o PortInUse]
  /\ pc' = [pc EXCEPT ![w] = "idle"]
  /\ UNCHANGED <<req, lm, acc>>

\* The command basiclm.stop.
WindowStop(w) ==
  /\ state.windows[w].active
  /\ pc[w] = "idle"
  /\ IF ~state.windows[w].isRunning
     THEN /\ res' = [res EXCEPT ![w] = "BasicLM is not running"]
          /\ state' = state
     ELSE /\ state' = updateGlobalServerState(
                        [state EXCEPT !.windows[w].isRunning = FALSE,
                                      !.listener = NoWindow], FALSE)
          /\ res' = [res EXCEPT ![w] = "BasicLM stopped"]
  /\ UNCHANGED <<pc, req, lm, acc>>

\* The command basiclm.restart: server.restart(), then the persisted state
\* is written with what the server says; a start that fails is reported and
\* nothing is written.
WindowRestart(w) ==
  /\ state.windows[w].active
  /\ pc[w] = "idle"
  /\ LET stopped == [state EXCEPT !.windows[w].isRunning = FALSE,
                                  !.listener = IF @ = w THEN NoWindow ELSE @]
     IN  IF stopped.listener = NoWindow
         THEN /\ state' = updateGlobalServerState(
                            [stopped EXCEPT !.windows[w].isRunning = TRUE,
                                            !.listener = w], TRUE)
              /\ res' = [res EXCEPT ![w] = "BasicLM restarted"]
         ELSE /\ state' = stopped
              /\ res' = [res EXCEPT ![w] = "BasicLM failed to restart: " \o PortInUse]
  /\ UNCHANGED <<pc, req, lm, acc>>

NextWindows ==
  \E w \in Windows :
    \/ Activate(w)
    \/ Deactivate(w)
    \/ WindowStart(w)
    \/ WindowStarted(w)
    \/ WindowStop(w)
    \/ WindowRestart(w)

SpecWindows == InitWindows /\ [][NextWindows]_vars

-----------------------------------------------------------------------------
(* The two wire error shapes *)

hasField(b, f) == f \in DOMAIN b

\* Protocol A: {error: {message, type, code, ...}} and no top-level type.
OpenAIErrorShape(b) ==
  /\ hasField(b, "error")
  /\ {"message", "type", "code"} \subseteq DOMAIN b.error
  /\ ~hasField(b, "type")

\* Protocol B: {type: "error", error: {type, message}} and no code.
AnthropicErrorShape(b) ==
  /\ hasField(b, "type") /\ b.type = "error"
  /\ hasField(b, "error")
  /\ {"type", "message"} \subseteq DOMAIN b.error
  /\ ~hasField(b.error, "code")

\* pathname.includes("/messages") on the segments of a path.
containsMessagesSegment(pathname) ==
  \E i \in 1..Len(pathname) : pathname[i] = "messages"

ShapeSelectedByPath(pathname, b) ==
  IF containsMessagesSegment(pathname)
  THEN AnthropicErrorShape(b)
  ELSE OpenAIErrorShape(b)

isErrorResponse(r) == r.writeHeads > 0 /\ r.statusCode >= 400

errorType(b) == IF hasField(b, "error") THEN b.error.type ELSE "<none>"

errorMessage(b) == IF hasField(b, "error") THEN b.error.message ELSE "<none>"

-----------------------------------------------------------------------------
(* Claims *)

\* C1: a request (other than a preflight) whose path is none of the four
\* known routes is answered 404, in the Protocol B error shape when the path
\* contains the messages segment and in the Protocol A shape otherwise.
C1_UnknownRouteShapeByPath ==
  (pc = "done" /\ req.path \in Paths \ KnownRoutes /\ req.method # "OPTIONS")
    => /\ res.statusCode = NOT_FOUND
       /\ ShapeSelectedByPath(req.path, res.body)

\* C2: a known route requested with a method that is neither its allowed one
\* nor OPTIONS is answered 405 with type invalid_request_error and message
\* "method not allowed", in the shape selected by the path.
C2_WrongMethodInvalidRequest ==
  (pc = "done" /\ req.path \in KnownRoutes /\ req.handler = "none"
     /\ req.method # "OPTIONS")
    => /\ res.statusCode = METHOD_NOT_ALLOWED
       /\ errorType(res.body) = INVALID_REQUEST
       /\ errorMessage(res.body) = "method not allowed"
       /\ ShapeSelectedByPath(req.path, res.body)

\* C3: every error response to a request on /v1/chat/completions has the
\* Protocol A shape, with code the status of the response as a string and
\* type one of the enumerated strings.
C3_OpenAIErrorBody ==
  (req.path = OPENAI_CHAT_COMPLETIONS /\ isErrorResponse(res))
    => /\ OpenAIErrorShape(res.body)
       /\ res.body.error.code = JStr(ToString(res.statusCode))
       /\ res.body.error.type \in ERROR_CODES

\* C4: every error response to a request on /v1/messages has the Protocol B
\* shape (top-level type "error", no code inside error), and no success body
\* has the top-level type "error".
C4_AnthropicErrorBody ==
  /\ (req.path = ANTHROPIC_MESSAGES /\ isErrorResponse(res))
       => AnthropicErrorShape(res.body)
  /\ (res.writeHeads > 0 /\ res.statusCode = OK)
       => ~(hasField(res.body, "type") /\ res.body.type = "error")

\* C5: a failure raised by the send-request call is answered with the status
\* and type of its class: NoPermissions and Blocked 403 permission_error,
\* NotFound 404 not_found_error, ContextLengthExceeded 400
\* invalid_request_error, anything else 502 api_error.
C5_UpstreamFailureClassified ==
  lm.failedAt = "sendRequest"
    => /\ pc = "done"
       /\ res.writeHeads = 1
       /\ <<res.statusCode, errorType(res.body)>> =
            CASE lm.failure \in {"NoPermissions", "Blocked"} -> <<403, "permission_error">>
              [] lm.failure = "NotFound" -> <<404, "not_found_error">>
              [] lm.failure = "ContextLengthExceeded" -> <<400, "invalid_request_error">>
              [] OTHER -> <<502, "api_error">>
       /\ res.body.error.code = JStr(ToString(res.statusCode))

C5_Witness ==
  /\ lm.failedAt = "sendRequest" /\ lm.failure = "Blocked"
  /\ res.statusCode = 403 /\ errorType(res.body) = "permission_error"

\* C6: with a model discoverable and the requested name resolving to none,
\* Protocol B answers 404 not_found_error and Protocol A 400
\* invalid_request_error, each in the error shape of its protocol.
C6_UnresolvableModel ==
  (req.handler \in {"openai", "anthropic"} /\ lm.discovered
     /\ Len(lm.models) > 0 /\ lm.model = NoModel)
    => IF req.handler = "anthropic"
       THEN /\ res.statusCode = NOT_FOUND
            /\ errorType(res.body) = NOT_FOUND_ERROR
            /\ AnthropicErrorShape(res.body)
       ELSE /\ res.statusCode = BAD_REQUEST
            /\ errorType(res.body) = INVALID_REQUEST
            /\ OpenAIErrorShape(res.body)

\* C7: a well-formed chat request for which discovery returns no model is
\* answered 503 with an api_error (or overloaded_error) body whatever model
\* was requested, and send-request is never called.
C7_NoModels503 ==
  (req.handler \in {"openai", "anthropic"} /\ lm.discovered /\ Len(lm.models) = 0)
    => /\ pc = "done"
       /\ res.writeHeads = 1
       /\ res.statusCode = SERVICE_UNAVAILABLE
       /\ errorType(res.body) \in {"api_error", "overloaded_error"}
       /\ lm.sendRequests = 0

C7_Witness ==
  /\ req.handler = "anthropic" /\ lm.discovered /\ Len(lm.models) = 0
  /\ req.body.model = NameGptUpper
  /\ res.statusCode = 503

\* The parsed body lacks the model or a messages array.
lacksModelOrMessages(body) ==
  /\ body.parse = "object"
  /\ body.model \in {Absent, EmptyName} \/ body.messages # "array"

\* C8 as stated: the body of the 400 answer is exactly
\* {"error":{"message":...,"type":"invalid_request_error","code":"400"}}.
C8_ExactBody ==
  (req.handler = "openai" /\ lacksModelOrMessages(req.body))
    => /\ res.statusCode = BAD_REQUEST
       /\ res.body =
            [error |-> [message |-> "invalid request: model and messages are required",
                        type |-> "invalid_request_error",
                        code |-> JStr("400")]]

\* C8 as amended: the body of the 400 answer is that error object with the
\* request's correlation id added as error.requestId and nothing else; model
\* discovery has not been consulted and send-request is not called.
C8_BodyWithRequestId ==
  (req.handler = "openai" /\ lacksModelOrMessages(req.body))
    => /\ pc = "done"
       /\ res.writeHeads = 1
       /\ res.statusCode = BAD_REQUEST
       /\ res.body =
            [error |-> [message |-> "invalid request: model and messages are required",
                        type |-> "invalid_request_error",
                        code |-> JStr("400"),
                        requestId |-> req.requestId]]
       /\ req.requestId # ""
       /\ ~lm.discovered
       /\ lm.sendRequests = 0

C8_Witness ==
  /\ req.handler = "openai"
  /\ req.body.parse = "object" /\ req.body.model = NameGpt
  /\ req.body.messages = "absent"
  /\ res.statusCode = 400

\* C9: a chat request whose body does not parse as JSON is answered 400
\* invalid_request_error.
C9_MalformedBodyInvalidRequest ==
  (req.handler \in {"openai", "anthropic"} /\ req.body.parse = "malformed")
    => /\ res.statusCode = BAD_REQUEST
       /\ errorType(res.body) = INVALID_REQUEST

\* What of a response reaches the client.
onTheWire(r) ==
  <<r.headersSent, r.statusCode, r.writeHeads, r.body, r.frames, r.ends, r.errorBodies>>

\* C10: an error renderer called on a response whose headers are sent writes
\* nothing and changes no status; so a response never has more than one
\* status line or more than one error body, however often a renderer ran.
C10_RendererIdempotent ==
  /\ res.headersSent =>
       \A statusCode \in {BAD_REQUEST, BAD_GATEWAY}, type \in ERROR_CODES :
         /\ onTheWire(UnifiedErrorResponse_sendError(res, statusCode, "again", type, req.requestId))
              = onTheWire(res)
         /\ onTheWire(RequestHandler_sendError(res, statusCode, "again", type, req.requestId))
              = onTheWire(res)
         /\ onTheWire(LMAPIServer_sendError(res, statusCode, "again", req.requestId))
              = onTheWire(res)
  /\ res.writeHeads <= 1
  /\ res.errorBodies <= 1
  /\ (res.errorBodies + res.guarded > 0) => res.writeHeads = 1

C10_Witness ==
  /\ res.guarded > 0
  /\ res.writeHeads = 1
  /\ res.statusCode = OK

-----------------------------------------------------------------------------
(* Model selection *)

\* The family of models[i] is non-empty and occurs, case folded, in the
\* requested name.
familyContained(models, i, name) ==
  /\ Len(models[i].family) > 0
  /\ \E k \in 1..Len(name) :
       /\ k + Len(models[i].family) - 1 <= Len(name)
       /\ \A d \in 1..Len(models[i].family) :
            ToLowerChar(name[k + d - 1]) = ToLowerChar(models[i].family[d])

\* C11: the model selected from the discovered list is the one whose id is
\* the requested name when there is one, even when a model earlier in the
\* list matches by family; otherwise the first model in list order whose
\* non-empty family is contained, case-insensitively, in the requested name;
\* otherwise none.
C11_SelectionPriority ==
  (req.handler \in {"openai", "anthropic"} /\ lm.discovered) =>
    LET models == lm.models
        name == req.body.model
        ids == {i \in 1..Len(models) : models[i].id = name}
        fams == {i \in 1..Len(models) : familyContained(models, i, name)}
    IN  /\ ids # {} => lm.model.id = name
        /\ (ids = {} /\ fams # {}) =>
             \E i \in fams : /\ lm.model = models[i]
                              /\ \A j \in 1..(i - 1) : j \notin fams
        /\ (ids = {} /\ fams = {}) => lm.model = NoModel

\* The requested name is the id of the second model and contains the family
\* of the first.
C11_Witness ==
  /\ req.handler = "openai" /\ lm.discovered
  /\ Len(lm.models) = 2
  /\ lm.models[2].id = req.body.model
  /\ familyContained(lm.models, 1, req.body.model)
  /\ lm.model = lm.models[2]
  /\ lm.model # lm.models[1]

-----------------------------------------------------------------------------
(* Streams *)

isText(part) == part.kind = "text"

isTool(part) == part.kind = "tool"

\* The text fragments and the tool calls of a fragment sequence, in order.
textsOf(stream) == SelectSeq(stream, isText)

toolsOf(stream) == SelectSeq(stream, isTool)

\* The inputs of the tool calls are structured JSON, as the interface of the
\* upstream capability says.
structuredInputs(stream) ==
  \A i \in 1..Len(stream) : isTool(stream[i]) => stream[i].input # CyclicInput

\* A fragment sequence has been consumed to its end by the streaming handler
\* of the given protocol.
streamed(handler) ==
  /\ lm.exhausted
  /\ req.handler = handler
  /\ req.body.stream
  /\ structuredInputs(lm.stream)

\* The name of an event: its type, with the type of the block it opens or
\* of the delta it carries.
eventKind(f) ==
  IF f.t = "content_block_start" THEN "content_block_start:" \o f.content_block.type
  ELSE IF f.t = "content_block_delta" THEN "content_block_delta:" \o f.delta.type
  ELSE f.t

eventKinds(frames) == [i \in 1..Len(frames) |-> eventKind(frames[i])]

\* The order of events the Protocol B state machine prescribes for nt text
\* fragments and nc tool calls.
blockStructure(nt, nc) ==
  << "message_start", "content_block_start:text" >>
  \o [i \in 1..nt |-> "content_block_delta:text_delta"]
  \o << "content_block_stop" >>
  \o [j \in 1..(3 * nc) |->
        CASE j % 3 = 1 -> "content_block_start:tool_use"
          [] j % 3 = 2 -> "content_block_delta:input_json_delta"
          [] OTHER -> "content_block_stop"]
  \o << "message_delta", "message_stop" >>

RECURSIVE concat(_)
\* The concatenation of a sequence of strings.
concat(strings) ==
  IF strings = <<>> THEN "" ELSE Head(strings) \o concat(Tail(strings))

\* The indices of the events of a given kind.
eventsOfKind(frames, kind) ==
  {i \in 1..Len(frames) : eventKind(frames[i]) = kind}

\* The text a client assembles from a Protocol B stream.
streamedText(frames) ==
  concat([i \in 1..Len(frames) |->
            IF eventKind(frames[i]) = "content_block_delta:text_delta"
            THEN frames[i].delta.text ELSE ""])

\* The least number of tokens of four characters that hold n characters.
tokensFor(n) == CHOOSE k \in 0..n : 4 * k >= n /\ 4 * (k - 1) < n

eventsUpTo(frames, n, type) == {j \in 1..n : frames[j].t = type}

blockEventTypes == {"content_block_start", "content_block_delta", "content_block_stop"}

\* C14: in a Protocol B stream the k-th block opened has index k - 1 (so the
\* indices start at 0, grow by one per block and none is used twice); every
\* delta and stop carries the index of the block opened last, which is not
\* yet stopped; and a block is opened only when every block before it has
\* been stopped.
C14_BlockIndices ==
  req.handler = "anthropic" =>
    \A i \in 1..Len(res.frames) :
      res.frames[i].t \in blockEventTypes =>
        LET opened == Cardinality(eventsUpTo(res.frames, i, "content_block_start"))
            stopped == Cardinality(eventsUpTo(res.frames, i - 1, "content_block_stop"))
        IN  /\ opened >= 1
            /\ res.frames[i].index = opened - 1
            /\ stopped = opened - 1

\* A text block and two tool blocks: indices 0, 1 and 2.
C14_Witness ==
  /\ req.handler = "anthropic"
  /\ Len(res.frames) >= 10
  /\ Cardinality(eventsUpTo(res.frames, Len(res.frames), "content_block_start")) = 3
  /\ res.frames[2].index = 0
  /\ res.frames[9].t = "content_block_stop" /\ res.frames[9].index = 2

\* JSON.parse of the text of an object: the object that text serialises.
JSON_parse(text) ==
  IF \E v \in ToolInputs \ {CyclicInput} : JSON_stringify(v) = text
  THEN CHOOSE v \in ToolInputs \ {CyclicInput} : JSON_stringify(v) = text
  ELSE << <<"<unparsable>", text>> >>

streaming(handler) ==
  /\ req.handler = handler
  /\ lm.sendRequests > 0 /\ lm.failedAt # "sendRequest"
  /\ req.body.stream

\* The frame is a chunk and its delta has the field.
deltaHas(f, field) == f.t = "chunk" /\ field \in DOMAIN f.delta

\* In a Protocol A stream the i-th frame is the chunk of the i-th text
\* fragment, with that fragment's text as content, and no other frame has
\* content.
oneChunkPerTextFragment ==
  LET texts == textsOf(lm.stream)
  IN  /\ Len(res.frames) >= Len(texts)
      /\ \A i \in 1..Len(res.frames) :
           IF i <= Len(texts)
           THEN deltaHas(res.frames[i], "content")
                /\ res.frames[i].delta.content = texts[i].value
           ELSE ~deltaHas(res.frames[i], "content")

\* C16 as stated: one chunk per text fragment, in order and with its text;
\* the first chunk of the stream carries role assistant and no later chunk
\* carries a role.
C16_FirstChunkOfStreamHasRole ==
  streaming("openai") =>
    /\ oneChunkPerTextFragment
    /\ \A i \in 1..Len(res.frames) :
         res.frames[i].t = "chunk" =>
           /\ deltaHas(res.frames[i], "role") <=> i = 1
           /\ deltaHas(res.frames[i], "role") => res.frames[i].delta.role = "assistant"

\* C16 as amended: one chunk per text fragment, in order and with its text;
\* the chunk of the first text fragment carries role assistant and no other
\* chunk carries a role, so a stream without text has no chunk with a role.
C16_FirstTextChunkHasRole ==
  streaming("openai") =>
    /\ oneChunkPerTextFragment
    /\ \A i \in 1..Len(res.frames) :
         res.frames[i].t = "chunk" =>
           (deltaHas(res.frames[i], "role")
              <=> (i = 1 /\ deltaHas(res.frames[i], "content")))
    /\ \A i \in 1..Len(res.frames) :
         deltaHas(res.frames[i], "role") => res.frames[i].delta.role = "assistant"

\* Two text fragments after a finished stream: the first chunk has the role,
\* the second has none.
C16_Witness ==
  /\ streaming("openai") /\ lm.exhausted
  /\ Len(textsOf(lm.stream)) = 2
  /\ res.frames[1].delta = [role |-> "assistant", content |-> lm.stream[1].value]
  /\ res.frames[2].delta = [content |-> lm.stream[2].value]
  /\ lm.stream[1].value # lm.stream[2].value

\* C17: in a Protocol A stream no frame carries tool calls while the
\* upstream sequence is running (the frames are then the text chunks alone);
\* once it has ended, the text chunks are followed by one chunk holding all
\* tool calls in arrival order when there are any, then by one chunk with an
\* empty delta and finish_reason tool_calls (stop when there was no tool
\* call), then by [DONE] as the last frame.
C17_ToolCallsBuffered ==
  /\ (streaming("openai") /\ ~lm.exhausted /\ lm.failedAt = "none") =>
       /\ Len(res.frames) = Len(textsOf(lm.stream))
       /\ \A i \in 1..Len(res.frames) : ~deltaHas(res.frames[i], "tool_calls")
  /\ streamed("openai") =>
       LET nt == Len(textsOf(lm.stream))
           tools == toolsOf(lm.stream)
           any == IF Len(tools) > 0 THEN 1 ELSE 0
           n == Len(res.frames)
       IN  /\ n = nt + any + 2
           /\ {i \in 1..n : deltaHas(res.frames[i], "tool_calls")}
                = {i \in {nt + 1} : any = 1}
           /\ any = 1 =>
                LET calls == res.frames[nt + 1].delta.tool_calls
                IN  /\ Len(calls) = Len(tools)
                    /\ \A k \in 1..Len(tools) :
                         /\ calls[k].id = tools[k].callId
                         /\ calls[k].function.name = tools[k].name
                         /\ JSON_parse(calls[k].function.arguments) = tools[k].input
           /\ res.frames[n - 1].t = "chunk"
           /\ res.frames[n - 1].delta = <<>>
           /\ res.frames[n - 1].finish_reason =
                IF any = 1 THEN "tool_calls" ELSE "stop"
           /\ {i \in 1..n : res.frames[i].t = "[DONE]"} = {n}
           /\ res.ends = 1

\* A tool call, a text fragment, the end: the text chunk, then the chunk of
\* the tool call, the final chunk and [DONE].
C17_Witness ==
  /\ streamed("openai")
  /\ Len(lm.stream) = 2 /\ isTool(lm.stream[1]) /\ isText(lm.stream[2])
  /\ Len(res.frames) = 4
  /\ res.frames[2].delta.tool_calls[1].id = lm.stream[1].callId
  /\ res.frames[3].finish_reason = "tool_calls"
  /\ res.frames[4] = OpenAIDone

\* The frame reports an error in the way of the protocol: an event of type
\* error for Protocol B, a chunk with an error field for Protocol A.
isErrorFrame(handler, f) ==
  IF handler = "anthropic"
  THEN f.t = "error" /\ f.type = "error" /\ hasField(f, "error")
  ELSE hasField(f, "error") /\ ~hasField(f, "delta")

\* Frames that close a stream which has not failed.
closingFrameTypes == {"[DONE]", "message_delta", "message_stop"}

isFinishChunk(f) == f.t = "chunk" /\ f.finish_reason # "<null>"

\* C18: when the upstream fragment sequence raises in a streaming response,
\* the stream holds exactly one error frame, which is its last frame; it
\* holds no finish chunk, no [DONE], no message_delta and no message_stop;
\* it is ended exactly once; the status stays the 200 already sent, no error
\* body is written, and the upstream has been called once only.
C18_MidStreamFailure ==
  (lm.failedAt = "stream" /\ req.body.stream) =>
    LET n == Len(res.frames)
    IN  /\ pc = "done"
        /\ n >= 1
        /\ {i \in 1..n : isErrorFrame(req.handler, res.frames[i])} = {n}
        /\ \A i \in 1..n :
             /\ res.frames[i].t \notin closingFrameTypes
             /\ ~isFinishChunk(res.frames[i])
        /\ res.ends = 1
        /\ res.statusCode = OK /\ res.writeHeads = 1
        /\ res.errorBodies = 0 /\ res.body = NoBody
        /\ lm.sendRequests = 1

\* A failure after one text fragment of a Protocol B stream.
C18_Witness ==
  /\ lm.failedAt = "stream" /\ req.body.stream
  /\ req.handler = "anthropic"
  /\ Len(lm.stream) = 1 /\ isText(lm.stream[1])
  /\ Len(res.frames) = 4
  /\ res.frames[4] = AnthropicErrorEvent
  /\ res.statusCode = OK

-----------------------------------------------------------------------------
(* Streaming and non-streaming responses *)

\* The text of a fragment sequence: its text fragments concatenated in order.
textOf(stream) ==
  LET texts == textsOf(stream)
  IN  concat([i \in 1..Len(texts) |-> texts[i].value])

\* The text content of a non-streaming body.  A response without text has
\* content null in Protocol A and no text block in Protocol B: no text.
openAIText(body) ==
  IF body.message.content = "<null>" THEN "" ELSE body.message.content

anthropicText(body) ==
  concat([i \in 1..Len(body.content) |->
            IF body.content[i].type = "text" THEN body.content[i].text ELSE ""])

\* The text and the finish reason a client collects from a Protocol A stream.
openAIStreamedText(frames) ==
  concat([i \in 1..Len(frames) |->
            IF deltaHas(frames[i], "content") THEN frames[i].delta.content ELSE ""])

finishReasons(frames) ==
  {frames[i].finish_reason : i \in {j \in 1..Len(frames) : isFinishChunk(frames[j])}}

stopReasons(frames) ==
  {frames[i].stop_reason : i \in eventsOfKind(frames, "message_delta")}

\* The non-streaming body each handler builds from a fragment sequence.
assembled(handler, stream) ==
  IF handler = "openai"
  THEN OpenAICompletion(req.body, textOf(stream), toolsOf(stream))
  ELSE AnthropicMessage(req.body, textOf(stream), toolsOf(stream))

\* A fragment sequence has been consumed to its end by a chat handler.
consumed ==
  /\ lm.exhausted
  /\ req.handler \in {"openai", "anthropic"}
  /\ structuredInputs(lm.stream)

C20_SameTextAcrossProtocols ==
  (consumed /\ ~req.body.stream) =>
    LET a == OpenAICompletion(req.body, acc.content, acc.toolCalls)
        b == AnthropicMessage(req.body, acc.content, acc.toolCalls)
        blocks == {i \in 1..Len(b.content) : b.content[i].type = "text"}
    IN  /\ res.body = IF req.handler = "openai" THEN a ELSE b
        /\ openAIText(a) = textOf(lm.stream)
        /\ anthropicText(b) = textOf(lm.stream)
        /\ Cardinality(blocks) <= 1
        /\ blocks # {} => blocks = {1} /\ b.content[1].text = a.message.content
        /\ blocks = {} <=> a.message.content = "<null>"

\* Two text fragments answered by Protocol B without streaming: the text
\* block holds both texts in order, as the Protocol A content would.
C20_Witness ==
  /\ consumed /\ ~req.body.stream /\ req.handler = "anthropic"
  /\ Len(textsOf(lm.stream)) = 2
  /\ lm.stream[1].value # lm.stream[2].value
  /\ res.body.content[1].text = lm.stream[1].value \o lm.stream[2].value
  /\ OpenAICompletion(req.body, acc.content, acc.toolCalls).message.content
       = res.body.content[1].text

-----------------------------------------------------------------------------
(* Non-streaming responses *)

\* The status and type of the class of an upstream failure.
classOf(failure) ==
  CASE failure \in {"NoPermissions", "Blocked"} -> <<FORBIDDEN, PERMISSION_ERROR>>
    [] failure = "NotFound" -> <<NOT_FOUND, NOT_FOUND_ERROR>>
    [] failure = "ContextLengthExceeded" -> <<BAD_REQUEST, INVALID_REQUEST>>
    [] OTHER -> <<BAD_GATEWAY, API_ERROR>>

\* A chat request that did not ask for a stream has had its upstream call
\* answered.
nonStreaming ==
  /\ req.handler \in {"openai", "anthropic"}
  /\ lm.sendRequests > 0 /\ lm.failedAt # "sendRequest"
  /\ ~req.body.stream

\* C21: in non-streaming mode nothing of the response is written (no status
\* line, no body, no frame) while the upstream fragment sequence is being
\* drained; when the sequence raises part-way the client gets one error
\* response, with the status and type of the failure's class, and no
\* success body.
C21_DrainBeforeResponding ==
  /\ (nonStreaming /\ pc = "pull") => res = NewResponse
  /\ (nonStreaming /\ lm.failedAt = "stream") =>
       /\ pc = "done"
       /\ res.writeHeads = 1 /\ res.ends = 1 /\ res.errorBodies = 1
       /\ res.frames = <<>>
       /\ <<res.statusCode, errorType(res.body)>> = classOf(lm.failure)
       /\ ~hasField(res.body, "message") /\ ~hasField(res.body, "content")

\* The sequence raises NotFound after a text fragment and a tool call.
C21_Witness ==
  /\ nonStreaming /\ lm.failedAt = "stream" /\ lm.failure = "NotFound"
  /\ Len(lm.stream) = 2 /\ isText(lm.stream[1]) /\ isTool(lm.stream[2])
  /\ res.statusCode = NOT_FOUND
  /\ res.writeHeads = 1

\* The reason a non-streaming body gives for the end of the response.
reasonOf(handler, body) ==
  IF handler = "openai" THEN body.finish_reason ELSE body.stop_reason

\* C22: the finish reason (Protocol A) or stop reason (Protocol B) of a
\* non-streaming response is tool_calls / tool_use exactly when the fragment
\* sequence held at least one tool call, and stop / end_turn otherwise,
\* whatever the text and wherever the tool calls stood.
C22_ReasonIffToolCall ==
  (consumed /\ ~req.body.stream) =>
    /\ res.statusCode = OK /\ res.ends = 1
    /\ reasonOf(req.handler, res.body) =
         IF \E i \in 1..Len(lm.stream) : isTool(lm.stream[i])
         THEN (IF req.handler = "openai" THEN "tool_calls" ELSE "tool_use")
         ELSE (IF req.handler = "openai" THEN "stop" ELSE "end_turn")

\* A tool call that arrived before the text still makes the Protocol A
\* reason tool_calls.
C22_Witness ==
  /\ consumed /\ ~req.body.stream /\ req.handler = "openai"
  /\ Len(lm.stream) = 2 /\ isTool(lm.stream[1]) /\ isText(lm.stream[2])
  /\ res.body.finish_reason = "tool_calls"
  /\ res.body.message.content = lm.stream[2].value

isTextBlock(block) == block.type = "text"

isToolUseBlock(block) == block.type = "tool_use"

\* C23: in the content of a Protocol B non-streaming response there is a
\* text block exactly when the concatenated text is non-empty; it is then
\* the first block and holds that text.  The remaining blocks are tool_use
\* blocks, one per tool call in arrival order, so a sequence of tool calls
\* only gives no text block at all.
C23_ContentBlocks ==
  (consumed /\ ~req.body.stream /\ req.handler = "anthropic") =>
    LET content == res.body.content
        text == textOf(lm.stream)
        calls == toolsOf(lm.stream)
        uses == SelectSeq(content, isToolUseBlock)
    IN  /\ Len(SelectSeq(content, isTextBlock)) = (IF text = "" THEN 0 ELSE 1)
        /\ text # "" => (isTextBlock(content[1]) /\ content[1].text = text)
        /\ Len(content) = Len(SelectSeq(content, isTextBlock)) + Len(uses)
        /\ Len(uses) = Len(calls)
        /\ \A i \in 1..Len(calls) :
             /\ uses[i].id = calls[i].callId
             /\ uses[i].name = calls[i].name
             /\ uses[i].input = calls[i].input

\* Two different tool calls and no text: two tool_use blocks in arrival
\* order and nothing else.
C23_Witness ==
  /\ consumed /\ ~req.body.stream /\ req.handler = "anthropic"
  /\ Len(lm.stream) = 2 /\ isTool(lm.stream[1]) /\ isTool(lm.stream[2])
  /\ lm.stream[1].callId # lm.stream[2].callId
  /\ Len(res.body.content) = 2
  /\ res.body.content[1].id = lm.stream[1].callId
  /\ res.body.content[2].id = lm.stream[2].callId

-----------------------------------------------------------------------------
(* Tool-call conversion *)

\* The name and input read back from the Protocol A form of a call.
readOpenAIToolCall(call) ==
  [id |-> call.id, name |-> call.function.name,
   input |-> JSON_parse(call.function.arguments)]

\* The name and input read back from the Protocol B form of a call.
readAnthropicToolCall(block) ==
  [id |-> block.id, name |-> block.name, input |-> block.input]

original(call) ==
  [id |-> call.callId, name |-> call.name, input |-> call.input]

\* C24: for the tool calls a handler has collected, both converted forms
\* have one entry per call in the same order, and reading the entry back
\* gives the call's callId as id, its name and its input (the Protocol A
\* arguments being JSON text of a structured input); a value that is absent
\* or not an array converts to the empty list.
C24_ToolCallRoundTrip ==
  LET calls == acc.toolCalls
      a == convertVSCodeToolCallsToOpenAI(ArrayOf(calls))
      b == convertVSCodeToolCallsToAnthropic(ArrayOf(calls))
  IN  /\ Len(b) = Len(calls)
      /\ \A i \in 1..Len(calls) : readAnthropicToolCall(b[i]) = original(calls[i])
      /\ structuredInputs(calls) =>
           /\ Len(a) = Len(calls)
           /\ \A i \in 1..Len(calls) : readOpenAIToolCall(a[i]) = original(calls[i])
      /\ convertVSCodeToolCallsToOpenAI(Undefined) = <<>>
      /\ convertVSCodeToolCallsToAnthropic(Undefined) = <<>>
      /\ convertVSCodeToolCallsToOpenAI(NotAnArray(calls)) = <<>>
      /\ convertVSCodeToolCallsToAnthropic(NotAnArray(calls)) = <<>>

\* Two different calls, the second with a non-empty input, sent back in a
\* Protocol A body whose arguments parse to that input.
C24_Witness ==
  /\ consumed /\ ~req.body.stream /\ req.handler = "openai"
  /\ Len(acc.toolCalls) = 2
  /\ acc.toolCalls[1].callId # acc.toolCalls[2].callId
  /\ acc.toolCalls[2].input = CityInput
  /\ Len(res.body.message.tool_calls) = 2
  /\ res.body.message.tool_calls[2].id = acc.toolCalls[2].callId
  /\ JSON_parse(res.body.message.tool_calls[2].function.arguments) = CityInput

-----------------------------------------------------------------------------
(* Usage figures *)

RECURSIVE textLength(_)
\* The number of characters of text in a list of messages: the length of a
\* string content, the lengths of the text parts of an array content.
textLength(messages) ==
  IF messages = <<>> THEN 0
  ELSE LET c == Head(messages).content
           here == CASE c.kind = "string" -> Len(c.text)
                     [] c.kind = "array" ->
                          Len(concat([i \in 1..Len(c.parts) |->
                                        IF hasField(c.parts[i], "text")
                                        THEN c.parts[i].text ELSE ""]))
                     [] OTHER -> 0
       IN  here + textLength(Tail(messages))

\* C25: the usage of a non-streaming response gives, for the input, the
\* ceiling of a quarter of the characters of the input messages' text (the
\* messages serialised as the concatenation of their text contents) and, for
\* the output, the ceiling of a quarter of the characters of the assembled
\* text, each computed from its own text only; Protocol A's total_tokens is
\* the sum of the two, and an empty output text gives zero output tokens.
C25_UsageEstimate ==
  (consumed /\ ~req.body.stream) =>
    LET input == tokensFor(textLength(req.body.items))
        output == tokensFor(Len(textOf(lm.stream)))
    IN  /\ textOf(lm.stream) = "" => output = 0
        /\ IF req.handler = "openai"
           THEN /\ res.body.prompt_tokens = input
                /\ res.body.completion_tokens = output
                /\ res.body.total_tokens = input + output
           ELSE /\ res.body.input_tokens = input
                /\ res.body.output_tokens = output

\* Nine characters of input in three messages and four of output in two
\* fragments: 3 + 1 = 4 tokens in a Protocol A response.
C25_Witness ==
  /\ consumed /\ ~req.body.stream /\ req.handler = "openai"
  /\ req.body.items = MixedMessages
  /\ textOf(lm.stream) = "abab"
  /\ res.body.prompt_tokens = 3
  /\ res.body.completion_tokens = 1
  /\ res.body.total_tokens = 4

-----------------------------------------------------------------------------
(* Tool definitions *)

\* The upstream capability has been called for a chat request with tools.
calledWithTools ==
  /\ lm.sendRequests > 0
  /\ req.handler \in {"openai", "anthropic"}
  /\ req.body.tools.defined

\* C26: for both protocols the tools handed to the upstream capability are
\* the caller's tools in number and order, each with its name and input
\* schema unchanged and with a non-empty description: the caller's when
\* there is a non-empty one, the tool's name otherwise.
C26_ToolDescriptionDefault ==
  calledWithTools =>
    LET tools == req.body.tools.items
    IN  /\ Len(lm.tools) = Len(tools)
        /\ \A i \in 1..Len(tools) :
             /\ lm.tools[i].name = tools[i].name
             /\ lm.tools[i].inputSchema = tools[i].schema
             /\ lm.tools[i].description \notin {NoDescription, ""}
             /\ lm.tools[i].description =
                  IF tools[i].description \in {NoDescription, ""}
                  THEN tools[i].name ELSE tools[i].description

-----------------------------------------------------------------------------
(* Request and error counters *)

\* A step in which the dispatcher receives a request: its path and method
\* are the ones the step records, unless the request line was rejected.
Received ==
  /\ pc \in {"idle", "done"}
  /\ \E urlOk \in BOOLEAN : HandleRequest(req'.path, req'.method, urlOk)

\* A step in which the handling of the received request raises to the
\* dispatcher's catch.
Raised ==
  /\ pc \in {"idle", "done"}
  /\ HandleRequest(req'.path, req'.method, FALSE)

C28_ResetOnlyByRestart ==
  [][IF Restart
     THEN state'.requestCount = 0 /\ state'.errorCount = 0
     ELSE /\ state'.requestCount >= state.requestCount
          /\ state'.errorCount >= state.errorCount
          /\ (Start \/ Stop) =>
               /\ state'.requestCount = state.requestCount
               /\ state'.errorCount = state.errorCount]_vars

-----------------------------------------------------------------------------
(* One response for every request *)

-----------------------------------------------------------------------------
(* The request body *)

\* The read of the body has been rejected for its size.
oversized == req.bodyLength > MaxBodySize

\* C30: a body is parsed only once it has been read to its end; a body that
\* has grown past 10 MiB is never parsed and never forwarded upstream, its
\* read is rejected, and the connection is aborted at that point, so that no
\* further data of that body is accumulated.
C30_OversizedBodyAborted ==
  /\ [](pc = "readBody" => req.body.parse = "unread")
  /\ [](oversized =>
          /\ pc = "done"
          /\ req.body.parse = "unread"
          /\ ~lm.discovered /\ lm.sendRequests = 0)
  /\ [][oversized => (req'.requestId # req.requestId
                       \/ req'.bodyLength = req.bodyLength)]_vars

-----------------------------------------------------------------------------
(* Lookahead of the streaming encoders *)

hasContentDelta(f) == deltaHas(f, "content")

isTextDelta(f) == eventKind(f) = "content_block_delta:text_delta"

\* The texts of the deltas written to the client so far, in order.
writtenTexts(handler, frames) ==
  IF handler = "openai"
  THEN LET chunks == SelectSeq(frames, hasContentDelta)
       IN  [i \in 1..Len(chunks) |-> chunks[i].delta.content]
  ELSE LET deltas == SelectSeq(frames, isTextDelta)
       IN  [i \in 1..Len(deltas) |-> deltas[i].delta.text]

\* The texts of the fragments pulled from the upstream sequence so far.
pulledTexts ==
  LET texts == textsOf(lm.stream)
  IN  [i \in 1..Len(texts) |-> texts[i].value]

\* C31: at every point of a streaming response, in both protocols, each
\* fragment yielded upstream has been pulled exactly once, and the deltas
\* written to the client are those of all the text fragments pulled so far,
\* in their order: when fragment k+1 is pulled the delta of text fragment k
\* is already written, so no fragment waits behind another.
C31_NoLookahead ==
  (req.handler \in {"openai", "anthropic"} /\ lm.sendRequests > 0
     /\ lm.failedAt # "sendRequest" /\ req.body.stream) =>
    /\ acc.pulled = Len(lm.stream)
    /\ writtenTexts(req.handler, res.frames) = pulledTexts

\* A Protocol B stream that is still being pulled after two different text
\* fragments: both deltas are written and the stream is not closed.
C31_Witness ==
  /\ streaming("anthropic") /\ pc = "pull"
  /\ Len(lm.stream) = 2
  /\ pulledTexts = << "cde", "ab" >>
  /\ writtenTexts("anthropic", res.frames) = << "cde", "ab" >>
  /\ res.ends = 0

-----------------------------------------------------------------------------
(* Message conversion *)

\* The messages of a request of the protocol have been converted.
convertedFor(handler) == pc = "converted" /\ req.handler = handler

\* The text of an abstract message whose content is a string.
abstractText(message) == message.content.text

\* C32: Protocol A conversion gives one abstract message for each wire
\* message, in order; a system message becomes a user message whose text is
\* "[SYSTEM] " followed by its content, a user message a user message, and
\* an assistant message an assistant message.
C32_RolesPreserved ==
  convertedFor("openai") =>
    LET wire == req.body.items
        out == lm.messages
    IN  /\ Len(out) = Len(wire)
        /\ \A i \in 1..Len(wire) :
             /\ out[i].role = (IF wire[i].role = "assistant" THEN "assistant" ELSE "user")
             /\ (wire[i].role = "system" /\ wire[i].content.kind = "string")
                  => abstractText(out[i]) = "[SYSTEM] " \o wire[i].content.text
             /\ (wire[i].role # "system" /\ wire[i].content.kind = "string")
                  => abstractText(out[i]) = wire[i].content.text

\* The texts of the text-typed parts of a multi-part content, in order.
textsOfParts(content) ==
  LET texts == SelectSeq(content.parts, isTextPart)
  IN  [i \in 1..Len(texts) |-> texts[i].text]

\* The strings with a newline between one and the next.
newlineSeparated(strings) ==
  CASE Len(strings) = 0 -> ""
    [] Len(strings) = 1 -> strings[1]
    [] Len(strings) = 2 -> strings[1] \o "\n" \o strings[2]
    [] OTHER -> "<more than two>"

\* The marker a system message is given.
marker(message) == IF message.role = "system" THEN "[SYSTEM] " ELSE ""

\* C33 as stated: the text of a multi-part message is the concatenation of
\* the texts of its text-typed parts.
C33_TextPartsConcatenated ==
  convertedFor("openai") =>
    \A i \in 1..Len(req.body.items) :
      req.body.items[i].content.kind = "array" =>
        abstractText(lm.messages[i])
          = marker(req.body.items[i]) \o concat(textsOfParts(req.body.items[i].content))

\* C33: the text of a Protocol A multi-part message is made of the texts of
\* its text-typed parts only, in order, with a newline between one and the
\* next; parts of another type add nothing and raise no error, and a
\* message without a text part has the empty text.
C33_TextPartsJoined ==
  convertedFor("openai") =>
    \A i \in 1..Len(req.body.items) :
      req.body.items[i].content.kind = "array" =>
        /\ abstractText(lm.messages[i])
             = marker(req.body.items[i])
               \o newlineSeparated(textsOfParts(req.body.items[i].content))
        /\ textsOfParts(req.body.items[i].content) = <<>>
             => abstractText(lm.messages[i]) = marker(req.body.items[i])

\* Two text parts around an image part: "ab", a newline, "cd".
C33_Witness ==
  /\ convertedFor("openai")
  /\ Len(req.body.items) = 1
  /\ req.body.items[1].content = ArrayContent(<< TextPart("ab"), ImagePart, TextPart("cd") >>)
  /\ abstractText(lm.messages[1]) = "ab\ncd"

\* The abstract parts the parts of a multi-part content are converted to:
\* nothing for a part of a type without handler.
RECURSIVE abstractParts(_)
abstractParts(parts) ==
  IF parts = <<>> THEN <<>>
  ELSE LET part == Head(parts)
           rest == abstractParts(Tail(parts))
       IN  CASE part.type = "text" ->
                  << [kind |-> "text", value |-> part.text] >> \o rest
             [] part.type = "tool_use" ->
                  << [kind |-> "toolCall", callId |-> part.id, name |-> part.name,
                      input |-> part.input] >> \o rest
             [] part.type = "tool_result" ->
                  << [kind |-> "toolResult", callId |-> part.tool_use_id,
                      content |->
                        CASE part.content.kind = "string" ->
                               << [kind |-> "text", value |-> part.content.text] >>
                          [] part.content.kind = "array" ->
                               [j \in 1..Len(part.content.parts) |->
                                  [kind |-> "text",
                                   value |-> IF part.content.parts[j].type = "text"
                                             THEN part.content.parts[j].text
                                             ELSE ""]]
                          [] OTHER -> << [kind |-> "text", value |-> ""] >>] >> \o rest
             [] OTHER -> rest

\* The abstract messages of the wire messages themselves, without the
\* synthetic message: same order, same roles, string contents unchanged,
\* multi-part contents converted part by part.
wireConverted(offset) ==
  /\ Len(lm.messages) = offset + Len(req.body.items)
  /\ \A i \in 1..Len(req.body.items) :
       LET wire == req.body.items[i]
           out == lm.messages[offset + i]
       IN  /\ out.role = wire.role
           /\ wire.content.kind = "string" => out.content = wire.content
           /\ wire.content.kind = "array"
                => out.content = ArrayContent(abstractParts(wire.content.parts))

\* The synthetic message that carries the system field.
isSynthetic(message) ==
  message = [role |-> "user", content |-> StringContent("[SYSTEM] " \o req.body.system)]

-----------------------------------------------------------------------------
(* The order of the steps of a chat request *)

chatRequest == req.handler \in {"openai", "anthropic"}

\* The body has been read, parsed and found valid.
validated == req.body.parse = "object" /\ isValid(req.handler, req.body)

\* The model has been discovered and selected.
resolved == lm.discovered /\ lm.model # NoModel

\* The messages and the tools of the request have been converted.
convertedAll ==
  /\ canConvert(req.handler, req.body.items)
  /\ lm.messages = convertMessages(req.handler, req.body)
  /\ lm.tools = convertTools(req.handler, req.body.tools)

\* model.sendRequest has been called.
called == pc \in {"sendRequest", "pull"} \/ lm.sendRequests > 0

\* model.sendRequest has returned a response.
returned == lm.sendRequests > 0 /\ lm.failedAt # "sendRequest"

\* A byte of a success response has been written.
successByte == (res.headersSent /\ res.statusCode = OK) \/ res.frames # <<>>

\* C35: within one chat request the steps come in the order method check,
\* body read and validation, model discovery and selection, conversion of
\* messages and tools, upstream call, first byte of a success response: each
\* step has been reached only if every earlier one succeeded, no success
\* byte is written before the upstream call has returned, and a request
\* that failed at a step has gone through none of the later ones.
C35_StepOrder ==
  chatRequest =>
    /\ (pc = "readBody" \/ req.body.parse # "unread") => req.method = "POST"
    /\ (pc = "discover" \/ lm.discovered) => validated /\ req.method = "POST"
    /\ lm.model # NoModel => lm.discovered
    /\ lm.messages # <<>> \/ lm.tools # <<>> => resolved
    /\ called => validated /\ resolved /\ convertedAll
    /\ successByte => returned /\ called
    /\ (pc = "done" /\ ~validated) => ~lm.discovered /\ ~called /\ ~successByte
    /\ (pc = "done" /\ ~resolved) => lm.messages = <<>> /\ ~called /\ ~successByte
    /\ (pc = "done" /\ resolved /\ ~canConvert(req.handler, req.body.items))
         => ~called /\ ~successByte
    /\ (pc = "done" /\ lm.failedAt = "sendRequest") => ~successByte

\* A streamed request that went through every step: the model was selected,
\* the messages and a tool converted, the call returned, and the response
\* was written to its end.
C35_Witness ==
  /\ chatRequest /\ pc = "done"
  /\ validated /\ resolved /\ convertedAll /\ returned /\ successByte
  /\ req.body.stream /\ lm.exhausted
  /\ Len(lm.messages) = 3 /\ Len(lm.tools) > 0
  /\ Len(res.frames) > 2 /\ res.ends = 1

-----------------------------------------------------------------------------
(* One upstream call, one rendering *)

errorFrame(f) == isErrorFrame(req.handler, f)

\* How many times an error has been rendered into the response: as an error
\* body, or as an error frame of a stream.
renderings == res.errorBodies + Len(SelectSeq(res.frames, errorFrame))

\* The request is past the point where model.sendRequest returns.
pastCall == pc = "pull" \/ (pc = "done" /\ req.handler # "none")

-----------------------------------------------------------------------------
(* The state of the server *)

\* host, port and startTime are undefined.
locationCleared ==
  state.port = NoPort /\ state.host = NoHost /\ state.startTime = NoTime

\* C38: once the promise of a stop() called on a running server is
\* resolved, the state says not running and has no host, port or startTime;
\* a restart() of a running server is not rejected with "Server is already
\* running".
C38_StoppedWhenResolved ==
  /\ (res.command = "stop" /\ res.running /\ res.outcome = "resolved")
       => ~state.isRunning /\ locationCleared
  /\ (res.command = "restart" /\ res.running) => res.outcome # AlreadyRunning

\* C39: host, port and startTime are defined exactly when isRunning is true.
C39_LocatedIffRunning ==
  /\ state.isRunning <=> state.port # NoPort
  /\ state.isRunning <=> state.host # NoHost
  /\ state.isRunning <=> state.startTime # NoTime

-----------------------------------------------------------------------------
(* The persisted state of several windows *)

someWindowRuns == \E w \in Windows : state.windows[w].isRunning

\* C40: the persisted isRunning is true only while the server of some
\* window is running (the test by which the start command refuses with
\* "already running in another window"), also after the window that
\* started the server has stopped it or has been deactivated; and at most
\* one window runs a server.
C40_FlagOnlyWhileRunning ==
  /\ state.globalState.isRunning => someWindowRuns
  /\ \A v, w \in Windows :
       (state.windows[v].isRunning /\ state.windows[w].isRunning) => v = w

-----------------------------------------------------------------------------
(* Requests in flight together *)

\* The correlation id an error body carries.
renderedId(body) ==
  IF hasField(body, "request_id") THEN body.request_id ELSE body.error.requestId

\* The ids of the tool calls a Protocol A stream has written.
writtenCallIds(frames) ==
  UNION {{frames[i].delta.tool_calls[k].id : k \in 1..Len(frames[i].delta.tool_calls)} :
           i \in {j \in 1..Len(frames) : deltaHas(frames[j], "tool_calls")}}

\* The ids of the tool calls of a fragment sequence.
callIds(stream) == {stream[i].callId : i \in {j \in 1..Len(stream) : isTool(stream[j])}}

\* C36: while requests are in flight together and interleave at their
\* awaits, the response of a request is made of its own request and its own
\* fragment sequence only: the accumulated text and tool calls are those of
\* its own fragments, the deltas written are its own text fragments, the
\* chunk counter counts its own chunks, the block indices are those of its
\* own blocks, the body of a finished response is the one assembled from its
\* own fragments, and an error body carries its own request id.
C36_OwnRequestOnly ==
  /\ (chatRequest /\ lm.sendRequests > 0 /\ lm.failedAt # "sendRequest") =>
       /\ acc.pulled = Len(lm.stream)
       /\ acc.content = textOf(lm.stream)
       /\ acc.toolCalls = toolsOf(lm.stream)
       /\ req.body.stream =>
            /\ writtenTexts(req.handler, res.frames) = pulledTexts
            /\ req.handler = "openai" =>
                 /\ acc.chunkIndex = Len(textsOf(lm.stream))
                 /\ writtenCallIds(res.frames) \subseteq callIds(lm.stream)
                 /\ lm.exhausted => writtenCallIds(res.frames) = callIds(lm.stream)
            /\ req.handler = "anthropic" =>
                 /\ Cardinality(eventsUpTo(res.frames, Len(res.frames),
                                           "content_block_start"))
                      = 1 + (IF lm.exhausted THEN Len(toolsOf(lm.stream)) ELSE 0)
                 /\ \A i \in 1..Len(res.frames) :
                      res.frames[i].t \in blockEventTypes =>
                        res.frames[i].index
                          = Cardinality(eventsUpTo(res.frames, i, "content_block_start")) - 1
       /\ (lm.exhausted /\ ~req.body.stream) =>
            res.statusCode = OK /\ res.body = assembled(req.handler, lm.stream)
  /\ (chatRequest /\ res.errorBodies > 0) => renderedId(res.body) = req.requestId
  /\ (pc # "idle" /\ state.suspended.pc # "idle")
       => req.requestId # state.suspended.req.requestId

\* Two streams in flight together, one of each protocol, each with a text
\* fragment of its own written and neither closed.
C36_Witness ==
  /\ pc = "pull" /\ state.suspended.pc = "pull"
  /\ req.handler = "openai" /\ state.suspended.req.handler = "anthropic"
  /\ req.body.stream /\ state.suspended.req.body.stream
  /\ pulledTexts = << "ab" >>
  /\ writtenTexts("openai", res.frames) = << "ab" >>
  /\ state.suspended.lm.stream = << [kind |-> "text", value |-> "cde"] >>
  /\ writtenTexts("anthropic", state.suspended.res.frames) = << "cde" >>

====
